---- MODULE Spec2Model ----
(***************************************************************************)
(* A model of kvdb: the storage backends (MemTable, SledDb), the pub/sub   *)
(* Broadcaster with its topic services, the Service with its hooks, and    *)
(* the network layer (frame codec, framed stream, multiplexed streams).    *)
(*                                                                         *)
(* Strings and byte strings are sequences of character codes, so that key  *)
(* composition ("{table}:{key}") and value encoding are computed, not      *)
(* assumed.  Option<T> is a sequence of length 0 (None) or 1 (Some).       *)
(***************************************************************************)
EXTENDS Integers, Sequences, FiniteSets, TLC

VARIABLES
    \* ---- storage (src/storage) ----
    tables,        \* MemTable.tables : table name -> (key -> Value)
    tree,          \* SledDb.0        : composite key bytes -> value bytes
    latest,        \* history: (table,key) -> Option<Value> of the latest set not followed by a del
    colonKey,      \* history: some call so far used a key that contains ':'
    lastCall,      \* the storage call that completed last, with what each backend returned
    setTables,     \* history: the tables some set call has written
    lastScan,      \* the get_all or get_iter call, when the last storage call was one
    callers,       \* concurrent callers of the MemTable: where each is in its call
    lin,           \* history: the operations on the table, in the order they took effect
    calls,         \* history: the number of calls started by the concurrent callers
    \* ---- broadcaster (src/service/topic.rs, topic_service.rs) ----
    topics,        \* Broadcaster.topics        : topic name -> set of subscription ids
    subscriptions, \* Broadcaster.subscriptions : ids that hold a Sender in the map
    NEXT_ID,       \* static NEXT_ID
    chan,          \* id -> queue of the mpsc channel created for that subscription
    rx,            \* id -> state of the Receiver: "open", "dropped", "ended"
    got,           \* id -> the responses the subscriber has received, in order
    idPush,        \* ids whose spawned id-push task has not run yet
    subs,          \* id -> the subscribe call that allocated it
    unsubs,        \* sequence of Unsubscribe requests (each a remove_subscription run)
    pubs,          \* sequence of Publish requests (each with its spawned fan-out task)
    \* ---- service and connection driver (src/service/mod.rs, src/network/mod.rs) ----
    svc,           \* ServiceInner: the four hook lists, and whether it is a shared Service yet
    served,        \* the request Service::execute ran last: its hook log, its response stream
    task,          \* the task running ProstServerStream::process for the connection
    \* ---- multiplexed connection (src/network/multiplex.rs, src/network/mod.rs) ----
    conn,          \* the task spawned by YamuxCtrl::new that drives every sub-stream handler
    hs,            \* sub-stream -> its handler: the process loop, its inbox and response stream
    \* ---- frames (src/network/frame.rs) ----
    cbuf,          \* a BytesMut that frames are encoded into and decoded from
    cq,            \* the messages encoded into it and not yet decoded
    clog,          \* the encode_frame and decode_frame calls made on it, with their results
    \* ---- framed stream (src/network/stream.rs) ----
    wbuf,          \* ProstStream.wbuf of the sending end
    written,       \* ProstStream.written of the sending end
    wire,          \* bytes written to the byte stream and not yet read by the peer
    closed,        \* the sending end has shut the byte stream down
    accepted,      \* history: the messages start_send has encoded
    sentBytes,     \* history: every byte written to the byte stream
    rbuf,          \* ProstStream.rbuf of the receiving end
    polled         \* history: what each poll of the receiving end's poll_next returned

concVars == <<callers, lin, calls>>
storeVars == <<tables, tree, latest, colonKey, lastCall, setTables, lastScan, concVars>>
topicVars == <<topics, subscriptions, NEXT_ID, chan, rx, got, idPush, subs, unsubs, pubs>>
svcVars == <<svc, served, task>>
muxVars == <<conn, hs>>
codecVars == <<cbuf, cq, clog>>
wireVars == <<wbuf, written, wire, closed, accepted, sentBytes, rbuf, polled>>
netVars == <<muxVars, codecVars, wireVars>>
vars == <<storeVars, topicVars, svcVars, netVars>>

\* ------------------------------------------------------------------------
\* Option<T>
None == <<>>
Some(x) == <<x>>

\* ------------------------------------------------------------------------
\* Strings used by the model, as character codes.
Colon == 58
StrT == <<116>>                \* "t"
StrTA == <<116, 58, 97>>       \* "t:a"
StrK == <<107>>                \* "k"
StrAK == <<97, 58, 107>>       \* "a:k"
StrV1 == <<118, 49>>           \* "v1"

TableNames == {StrT, StrTA}
KeyNames == {StrK, StrAK}

HasColon(s) == \E i \in 1..Len(s) : s[i] = Colon

\* pb::Value: a oneof of String / Integer, or no variant at all (Value::default()).
ValueDefault == [tag |-> "None", s |-> <<>>, i |-> 0]
ValueString(s) == [tag |-> "String", s |-> s, i |-> 0]
ValueInteger(i) == [tag |-> "Integer", s |-> <<>>, i |-> i]

StoreValues == {ValueString(StrV1), ValueInteger(7), ValueDefault}

\* prost encoding of Value: field 1 (string, wire type 2) is 0x0A len bytes,
\* field 3 (int64, wire type 0) is 0x18 varint; no variant encodes to nothing.
EncodeValue(v) ==
    CASE v.tag = "String" -> <<10, Len(v.s)>> \o v.s
      [] v.tag = "Integer" -> <<24, v.i>>
      [] OTHER -> <<>>

\* Value::decode
DecodeValue(b) ==
    IF Len(b) = 0 THEN ValueDefault
    ELSE IF b[1] = 10 THEN ValueString(SubSeq(b, 3, 2 + b[2]))
    ELSE ValueInteger(b[2])

\* ------------------------------------------------------------------------
\* MemTable
\* get_or_create_table: the table exists afterwards
GetOrCreateTable(tbls, t) ==
    IF t \in DOMAIN tbls THEN tbls ELSE [x \in DOMAIN tbls \cup {t} |-> IF x = t THEN <<>> ELSE tbls[x]]

MemGet(tbls, t, k) ==
    LET tb == GetOrCreateTable(tbls, t)[t] IN IF k \in DOMAIN tb THEN Some(tb[k]) ELSE None

MemContains(tbls, t, k) == k \in DOMAIN GetOrCreateTable(tbls, t)[t]

\* DashMap::insert on the table: the new map
MemInsert(tbls, t, k, v) ==
    LET c == GetOrCreateTable(tbls, t)
        tb == c[t]
    IN [c EXCEPT ![t] = [x \in DOMAIN tb \cup {k} |-> IF x = k THEN v ELSE tb[x]]]

\* DashMap::remove on the table: the new map
MemRemove(tbls, t, k) ==
    LET c == GetOrCreateTable(tbls, t)
        tb == c[t]
    IN [c EXCEPT ![t] = [x \in DOMAIN tb \ {k} |-> tb[x]]]

\* ------------------------------------------------------------------------
\* SledDb
GetFullKey(t, k) == t \o <<Colon>> \o k

SledGet(tr, t, k) ==
    LET name == GetFullKey(t, k) IN IF name \in DOMAIN tr THEN Some(DecodeValue(tr[name])) ELSE None

SledContains(tr, t, k) == GetFullKey(t, k) \in DOMAIN tr

SledInsert(tr, t, k, v) ==
    LET name == GetFullKey(t, k)
    IN [x \in DOMAIN tr \cup {name} |-> IF x = name THEN EncodeValue(v) ELSE tr[x]]

\* mutant of SledRemove: the entry is left in the tree
SledRemoveKeeps(tr, t, k) == tr

SledRemove(tr, t, k) ==
    LET name == GetFullKey(t, k) IN [x \in DOMAIN tr \ {name} |-> tr[x]]

\* ------------------------------------------------------------------------
\* Storage calls, applied to both backends.
\* the outcome of a scan: Ok with the pairs it yields, or a panic
Scanned(ps) == [res |-> "Ok", pairs |-> ps]
ScanPanics == [res |-> "panic", pairs |-> <<>>]
NoScan == [res |-> "none", pairs |-> <<>>]

\* bounds of the model: concurrent callers of one MemTable, and the calls they start
Callers == 2
MaxCalls == 3

\* a caller between two calls
Idle == [pc |-> "idle", op |-> "none", value |-> ValueDefault, created |-> FALSE]

ConcInit ==
    /\ callers = [w \in 1..Callers |-> Idle]
    /\ lin = <<>>
    /\ calls = 0

\* lastScan when the call that completed last was not a scan
NotAScan ==
    [op |-> "none", table |-> <<>>, fresh |-> FALSE, mem |-> NoScan, sled |-> NoScan,
     memAll |-> <<>>, sledAll |-> <<>>]

StoreInit ==
    /\ tables = <<>>
    /\ tree = <<>>
    /\ latest = [p \in TableNames \X KeyNames |-> None]
    /\ colonKey = FALSE
    /\ lastCall = [op |-> "none", table |-> <<>>, key |-> <<>>, mem |-> None, sled |-> None,
                   before |-> None]
    /\ setTables = {}
    /\ lastScan = NotAScan
    /\ ConcInit

Call(op, t, k, m, s) ==
    [op |-> op, table |-> t, key |-> k, mem |-> m, sled |-> s, before |-> latest[<<t, k>>]]

StorageSet(t, k, v) ==
    /\ tables' = MemInsert(tables, t, k, v)
    /\ tree' = SledInsert(tree, t, k, v)
    /\ lastCall' = Call("set", t, k, MemGet(tables, t, k), SledGet(tree, t, k))
    /\ latest' = [latest EXCEPT ![<<t, k>>] = Some(v)]
    /\ colonKey' = (colonKey \/ HasColon(k))
    /\ setTables' = setTables \cup {t}
    /\ lastScan' = NotAScan
    /\ UNCHANGED concVars

StorageDel(t, k) ==
    /\ tables' = MemRemove(tables, t, k)
    /\ tree' = SledRemove(tree, t, k)
    /\ lastCall' = Call("del", t, k, MemGet(tables, t, k), SledGet(tree, t, k))
    /\ latest' = [latest EXCEPT ![<<t, k>>] = None]
    /\ colonKey' = (colonKey \/ HasColon(k))
    /\ lastScan' = NotAScan
    /\ UNCHANGED <<setTables, concVars>>

StorageGet(t, k) ==
    /\ tables' = GetOrCreateTable(tables, t)
    /\ lastCall' = Call("get", t, k, MemGet(tables, t, k), SledGet(tree, t, k))
    /\ colonKey' = (colonKey \/ HasColon(k))
    /\ lastScan' = NotAScan
    /\ UNCHANGED <<tree, latest, setTables, concVars>>

StorageContains(t, k) ==
    /\ tables' = GetOrCreateTable(tables, t)
    /\ lastCall' = Call("contains", t, k, Some(MemContains(tables, t, k)),
                        Some(SledContains(tree, t, k)))
    /\ colonKey' = (colonKey \/ HasColon(k))
    /\ lastScan' = NotAScan
    /\ UNCHANGED <<tree, latest, setTables, concVars>>

StorageCall ==
    \E t \in TableNames, k \in KeyNames :
        \/ \E v \in StoreValues : StorageSet(t, k, v)
        \/ StorageDel(t, k)
        \/ StorageGet(t, k)
        \/ StorageContains(t, k)

\* ------------------------------------------------------------------------
\* pb::CommandResponse and the conversions into it (src/pb/mod.rs)
ResponseDefault == [status |-> 0, message |-> <<>>, values |-> <<>>, pairs |-> <<>>]

\* CommandResponse::ok()
ResponseOk == [ResponseDefault EXCEPT !.status = 200]

\* From<Value> for CommandResponse
ResponseFromValue(v) == [ResponseDefault EXCEPT !.status = 200, !.values = <<v>>]

\* From<Vec<Value>> for CommandResponse
ResponseFromValues(vs) == [ResponseDefault EXCEPT !.values = vs]

\* KvError::NotFound(detail), displayed as "Not found {0}"
NotFoundError(detail) == [kind |-> "NotFound", detail |-> detail]
\* mutant of InvalidCommandError: the error is built as KvError::Internal
InvalidCommandAsInternal(detail) == [kind |-> "Internal", detail |-> detail]

\* KvError::InvalidCommand(detail), displayed as "Cannot parse command: `{0}`"
InvalidCommandError(detail) == [kind |-> "InvalidCommand", detail |-> detail]
ErrorToString(e) ==
    IF e.kind = "NotFound" THEN <<"Not found">> \o e.detail
    ELSE <<"Cannot parse command:">> \o e.detail

\* From<KvError> for CommandResponse
ResponseFromError(e) ==
    [status |-> IF e.kind = "NotFound" THEN 404
                ELSE IF e.kind \in {"InvalidCommand", "ConvertCommand"} THEN 400
                ELSE 500,
     message |-> ErrorToString(e), values |-> <<>>, pairs |-> <<>>]

\* ------------------------------------------------------------------------
\* Broadcaster (src/service/topic.rs)

\* const BROADCAST_CAPACITY
BROADCAST_CAPACITY == 128

\* Bounds of the model: the number of Subscribe, Unsubscribe and Publish requests,
\* and the number of worker threads of the runtime
MaxReq == 4
Workers == 2

TopicNames == {"a", "b"}
\* the id of dispatch_unsubscribe_random_id_should_error, which subscribe never issued
RandomId == 121233

\* mutant of FetchAdd: the counter is read and left as it was
FetchAddLost(n) == n

\* get_next_subscription_id: NEXT_ID.fetch_add(1, Relaxed) returns the counter and leaves
\* it one higher, in one atomic step; this is the counter afterwards
FetchAdd(n) == n + 1

\* the id message of subscribe: (id as i64) -> Value -> CommandResponse
IdMessage(id) == ResponseFromValue(ValueInteger(id))

\* topics.entry(name).or_default() followed by entry.value().insert(id)
TopicsInsert(tp, name, id) ==
    [t \in DOMAIN tp \cup {name} |-> IF t = name THEN (IF name \in DOMAIN tp THEN tp[name] ELSE {}) \cup {id}
                                     ELSE tp[t]]

\* remove_subscription, first step: topics.get_mut(&name), v.remove(&id)
TopicsRemoveId(tp, name, id) ==
    IF name \in DOMAIN tp THEN [tp EXCEPT ![name] = @ \ {id}] ELSE tp

\* mutant of EmptyAfterRemove: the emptied topic is never found empty
EmptyAfterRemoveNever(tp, name, id) == FALSE

\* remove_subscription: the v.is_empty() test made under the same guard
EmptyAfterRemove(tp, name, id) == name \in DOMAIN tp /\ tp[name] \ {id} = {}

\* remove_subscription, second step: topics.remove(&name)
TopicsRemove(tp, name) == [t \in DOMAIN tp \ {name} |-> tp[t]]

\* remove_subscription, last step: subscriptions.remove(&id).map(|(id, _)| id)
SubscriptionsRemoved(sb, id) == IF id \in sb THEN Some(id) ELSE None

\* A publish task that awaits tx.send holds the Ref it got from subscriptions.get(&id):
\* a write to that entry waits until the Ref is dropped.
RefHeld(id) == \E p \in 1..Len(pubs) : pubs[p].cur = id

\* tokio mpsc: the channel is closed for senders once the Receiver is gone
Closed(id) == rx[id] # "open"
Full(id) == Len(chan[id]) >= BROADCAST_CAPACITY

\* mutant of SendOutcome: try_send, which fails on a full channel instead of waiting
SendOutcomeTry(id) == IF Closed(id) \/ Full(id) THEN "failed" ELSE "sent"

\* tx.send(value).await: "failed" on a closed channel, "sent" when there is room,
\* "pending" while the channel is full
SendOutcome(id) ==
    IF Closed(id) THEN "failed" ELSE IF Full(id) THEN "pending" ELSE "sent"

\* senders alive: the one stored in subscriptions and the clone moved into the id-push task
HasSender(id) == id \in subscriptions \/ id \in idPush

\* ids of subscribe calls that have returned their receiver
Returned == {id \in DOMAIN subs : subs[id].pc = "done"}
\* ids some Unsubscribe request has named so far
Targeted == {unsubs[u].id : u \in 1..Len(unsubs)}

\* requests made so far
Requests == (NEXT_ID - 1) + Len(unsubs) + Len(pubs)
\* ids an Unsubscribe request may name: those allocated so far, and one never issued
UnsubIds == DOMAIN subs \cup {RandomId}

\* A worker thread is taken by every call or task that is between two of its steps,
\* except a publish task suspended in a pending send.
Running ==
    Cardinality({id \in DOMAIN subs : subs[id].pc = "insert"})
    + Cardinality({u \in 1..Len(unsubs) : unsubs[u].pc # "done"})
    + Cardinality({p \in 1..Len(pubs) :
          /\ pubs[p].pc \in {"loop", "reap"}
          /\ ~(pubs[p].cur # 0 /\ SendOutcome(pubs[p].cur) = "pending")})
\* the first request names topic "a" (the two names are interchangeable)
NameAllowed(name) == Requests > 0 \/ name = "a"

TopicInit ==
    /\ topics = <<>>
    /\ subscriptions = {}
    /\ NEXT_ID = 1
    /\ chan = <<>>
    /\ rx = <<>>
    /\ got = <<>>
    /\ idPush = {}
    /\ subs = <<>>
    /\ unsubs = <<>>
    /\ pubs = <<>>

Extend(f, k, v) == [x \in DOMAIN f \cup {k} |-> IF x = k THEN v ELSE f[x]]

\* Topic::subscribe, lines 45-61: allocate the id under the topic entry, create the
\* channel, spawn the id push
Subscribe(name) ==
    /\ Requests < MaxReq
    /\ NameAllowed(name)
    /\ Running < Workers
    /\ LET id == NEXT_ID IN
        /\ topics' = TopicsInsert(topics, name, id)
        /\ NEXT_ID' = FetchAdd(NEXT_ID)   \* on the u32; MaxReq keeps it far from wrapping
        /\ chan' = Extend(chan, id, <<>>)
        /\ rx' = Extend(rx, id, "open")
        /\ got' = Extend(got, id, <<>>)
        /\ idPush' = idPush \cup {id}
        /\ subs' = Extend(subs, id, [name |-> name, pc |-> "insert"])
    /\ UNCHANGED <<subscriptions, unsubs, pubs, storeVars, svcVars, netVars>>

\* Topic::subscribe, lines 63-66: subscriptions.insert(id, tx); return rx
SubscribeInsert(id) ==
    /\ id \in DOMAIN subs
    /\ subs[id].pc = "insert"
    /\ ~RefHeld(id)
    /\ subscriptions' = subscriptions \cup {id}
    /\ subs' = [subs EXCEPT ![id].pc = "done"]
    /\ UNCHANGED <<topics, NEXT_ID, chan, rx, got, idPush, unsubs, pubs, storeVars, svcVars, netVars>>

\* the task spawned by subscribe: tx1.send(id message).await
IdPush(id) ==
    /\ id \in idPush
    /\ Closed(id) \/ ~Full(id)
    /\ chan' = IF Closed(id) THEN chan ELSE [chan EXCEPT ![id] = Append(@, IdMessage(id))]
    /\ idPush' = idPush \ {id}
    /\ UNCHANGED <<topics, subscriptions, NEXT_ID, rx, got, subs, unsubs, pubs, storeVars, svcVars, netVars>>

\* Topic::unsubscribe as TopicService for Unsubscribe uses it: the id that
\* remove_subscription returned, or the error "Not found subscription {id}"
UnsubscribeResult(removed, id) ==
    IF removed # None THEN [ok |-> TRUE, err |-> NotFoundError(<<>>)]
    ELSE [ok |-> FALSE, err |-> NotFoundError(<<"subscription", id>>)]

\* TopicService for Unsubscribe: Ok(_) => CommandResponse::ok(), Err(e) => e.into();
\* the stream yields that one response
UnsubscribeReply(res) == <<IF res.ok THEN ResponseOk ELSE ResponseFromError(res.err)>>

\* no subscribe call, publish task or Unsubscribe request other than u is under way
OthersIdle(u) ==
    /\ \A id \in DOMAIN subs : subs[id].pc = "done"
    /\ \A x \in 1..Len(unsubs) : x = u \/ unsubs[x].pc = "done"
    /\ \A p \in 1..Len(pubs) : pubs[p].pc = "done"

\* An Unsubscribe request: remove_subscription(name, id), lines 100-104
Unsubscribe(name, id) ==
    /\ Requests < MaxReq
    /\ NameAllowed(name)
    /\ Running < Workers
    /\ topics' = TopicsRemoveId(topics, name, id)
    /\ unsubs' = Append(unsubs,
            [name |-> name, id |-> id,
             pc |-> IF EmptyAfterRemove(topics, name, id) THEN "remove_topic" ELSE "remove_sub",
             removed |-> None, reply |-> <<>>,
             \* history: the run changed a map; no other call or task ran beside it
             changed |-> (topics' # topics),
             alone |-> OthersIdle(0)])
    /\ UNCHANGED <<subscriptions, NEXT_ID, chan, rx, got, idPush, subs, pubs, storeVars, svcVars, netVars>>

\* remove_subscription, line 105: topics.remove(&name)
UnsubRemoveTopic(u) ==
    /\ u \in 1..Len(unsubs)
    /\ unsubs[u].pc = "remove_topic"
    /\ topics' = TopicsRemove(topics, unsubs[u].name)
    /\ unsubs' = [unsubs EXCEPT ![u].pc = "remove_sub",
                                ![u].changed = @ \/ (topics' # topics),
                                ![u].alone = @ /\ OthersIdle(u)]
    /\ UNCHANGED <<subscriptions, NEXT_ID, chan, rx, got, idPush, subs, pubs, storeVars, svcVars, netVars>>

\* remove_subscription, line 109, and the reply of the Unsubscribe request
UnsubRemoveSub(u) ==
    /\ u \in 1..Len(unsubs)
    /\ unsubs[u].pc = "remove_sub"
    /\ ~RefHeld(unsubs[u].id)
    /\ LET removed == SubscriptionsRemoved(subscriptions, unsubs[u].id) IN
        /\ subscriptions' = subscriptions \ {unsubs[u].id}
        /\ unsubs' = [unsubs EXCEPT ![u].pc = "done",
                                    ![u].removed = removed,
                                    ![u].reply = UnsubscribeReply(UnsubscribeResult(removed, unsubs[u].id)),
                                    ![u].changed = @ \/ (subscriptions' # subscriptions),
                                    ![u].alone = @ /\ OthersIdle(u)]
    /\ UNCHANGED <<topics, NEXT_ID, chan, rx, got, idPush, subs, pubs, storeVars, svcVars, netVars>>

\* ------------------------------------------------------------------------
\* Publish

\* Publish.values of the p-th Publish request of the model
PublishedValues(p) == <<ValueInteger(p)>>

\* TopicService for Publish: the message handed to Topic::publish
PublishMessage(values) == ResponseFromValues(values)

\* mutant of PublishReply: the reply is built like the published message, without a status
PublishReplyNoStatus == <<ResponseFromValues(<<>>)>>

\* TopicService for Publish: the stream given back to the publisher
PublishReply == <<ResponseOk>>

\* ids whose subscription of `name` is live: subscribe has returned, no Unsubscribe
\* request has named the id, the receiver is held
Live(name) ==
    {id \in Returned : subs[id].name = name /\ id \notin Targeted /\ rx[id] = "open"}
\* ids whose receiver was dropped by the subscriber of `name` (never unsubscribed)
Abandoned(name) ==
    {id \in Returned : subs[id].name = name /\ id \notin Targeted /\ rx[id] = "dropped"}
\* ids of `name` for which an Unsubscribe(name, id) has returned success
Unsubscribed(name) ==
    {unsubs[u].id : u \in {x \in 1..Len(unsubs) :
        /\ unsubs[x].pc = "done" /\ unsubs[x].removed # None /\ unsubs[x].name = name
        /\ unsubs[x].id \in DOMAIN subs /\ subs[unsubs[x].id].name = name}}

\* A Publish request: Topic::publish spawns the fan-out and the reply is ready at once
Publish(name) ==
    /\ Requests < MaxReq
    /\ NameAllowed(name)
    /\ pubs' = Append(pubs,
            [name |-> name,
             value |-> PublishMessage(PublishedValues(Len(pubs) + 1)),
             reply |-> PublishReply,
             pc |-> "get", todo |-> {}, cur |-> 0, ids |-> <<>>, rm |-> "get_mut",
             \* history
             marked |-> {}, live |-> Live(name), abandoned |-> Abandoned(name),
             unsubscribed |-> Unsubscribed(name)])
    /\ UNCHANGED <<topics, subscriptions, NEXT_ID, chan, rx, got, idPush, subs, unsubs, storeVars, svcVars, netVars>>

\* where the task goes when the loop over the snapshot has nothing left
AfterLoop(todo, ids) == IF todo # {} THEN "loop" ELSE IF ids # <<>> THEN "reap" ELSE "done"

\* publish task, lines 76-79: snapshot the subscriber ids of the topic
PubGet(p) ==
    /\ p \in 1..Len(pubs)
    /\ pubs[p].pc = "get"
    /\ Running < Workers
    /\ LET snap == IF pubs[p].name \in DOMAIN topics THEN topics[pubs[p].name] ELSE {} IN
        pubs' = [pubs EXCEPT ![p].todo = snap, ![p].pc = AfterLoop(snap, <<>>)]
    /\ UNCHANGED <<topics, subscriptions, NEXT_ID, chan, rx, got, idPush, subs, unsubs, storeVars, svcVars, netVars>>

\* publish task, lines 81-82: next id of the snapshot (DashSet order), subscriptions.get(&id)
PubLookup(p, id) ==
    /\ p \in 1..Len(pubs)
    /\ pubs[p].pc = "loop"
    /\ pubs[p].cur = 0
    /\ id \in pubs[p].todo
    /\ pubs' = IF id \in subscriptions
               THEN [pubs EXCEPT ![p].todo = @ \ {id}, ![p].cur = id]
               ELSE [pubs EXCEPT ![p].todo = @ \ {id},
                                 ![p].pc = AfterLoop(pubs[p].todo \ {id}, pubs[p].ids)]
    /\ UNCHANGED <<topics, subscriptions, NEXT_ID, chan, rx, got, idPush, subs, unsubs, storeVars, svcVars, netVars>>

\* publish task, lines 83-86: the send completes, or fails and the id is pushed on ids
PubSend(p) ==
    /\ p \in 1..Len(pubs)
    /\ pubs[p].cur # 0
    /\ LET id == pubs[p].cur
           out == SendOutcome(id)
           ids == IF out = "failed" THEN Append(pubs[p].ids, id) ELSE pubs[p].ids
       IN
        /\ out # "pending"
        /\ chan' = IF out = "sent" THEN [chan EXCEPT ![id] = Append(@, pubs[p].value)] ELSE chan
        /\ pubs' = [pubs EXCEPT ![p].cur = 0, ![p].ids = ids,
                                ![p].marked = IF out = "failed" THEN @ \cup {id} ELSE @,
                                ![p].pc = AfterLoop(pubs[p].todo, ids)]
    /\ UNCHANGED <<topics, subscriptions, NEXT_ID, rx, got, idPush, subs, unsubs, storeVars, svcVars, netVars>>

\* publish task, lines 91-93: remove_subscription(name, ids[0]), lines 100-104
PubReapRemoveId(p) ==
    /\ p \in 1..Len(pubs)
    /\ pubs[p].pc = "reap"
    /\ pubs[p].rm = "get_mut"
    /\ topics' = TopicsRemoveId(topics, pubs[p].name, Head(pubs[p].ids))
    /\ pubs' = [pubs EXCEPT ![p].rm =
            IF EmptyAfterRemove(topics, pubs[p].name, Head(pubs[p].ids))
            THEN "remove_topic" ELSE "remove_sub"]
    /\ UNCHANGED <<subscriptions, NEXT_ID, chan, rx, got, idPush, subs, unsubs, storeVars, svcVars, netVars>>

\* remove_subscription of the reap, line 105
PubReapRemoveTopic(p) ==
    /\ p \in 1..Len(pubs)
    /\ pubs[p].pc = "reap"
    /\ pubs[p].rm = "remove_topic"
    /\ topics' = TopicsRemove(topics, pubs[p].name)
    /\ pubs' = [pubs EXCEPT ![p].rm = "remove_sub"]
    /\ UNCHANGED <<subscriptions, NEXT_ID, chan, rx, got, idPush, subs, unsubs, storeVars, svcVars, netVars>>

\* remove_subscription of the reap, line 109; then the next id of ids
PubReapRemoveSub(p) ==
    /\ p \in 1..Len(pubs)
    /\ pubs[p].pc = "reap"
    /\ pubs[p].rm = "remove_sub"
    /\ ~RefHeld(Head(pubs[p].ids))
    /\ subscriptions' = subscriptions \ {Head(pubs[p].ids)}
    /\ pubs' = [pubs EXCEPT ![p].ids = Tail(@), ![p].rm = "get_mut",
                            ![p].pc = IF Tail(pubs[p].ids) = <<>> THEN "done" ELSE "reap"]
    /\ UNCHANGED <<topics, NEXT_ID, chan, rx, got, idPush, subs, unsubs, storeVars, svcVars, netVars>>

\* ------------------------------------------------------------------------
\* The subscriber's end: the ReceiverStream returned by TopicService for Subscribe

\* the stream yields the next queued response
Recv(id) ==
    /\ id \in Returned
    /\ rx[id] = "open"
    /\ chan[id] # <<>>
    /\ Len(got[id]) < MaxReq
    /\ got' = [got EXCEPT ![id] = Append(@, Head(chan[id]))]
    /\ chan' = [chan EXCEPT ![id] = Tail(@)]
    /\ UNCHANGED <<topics, subscriptions, NEXT_ID, rx, idPush, subs, unsubs, pubs, storeVars, svcVars, netVars>>

\* the stream yields None: the queue is empty and every sender is gone
StreamEnd(id) ==
    /\ id \in Returned
    /\ rx[id] = "open"
    /\ chan[id] = <<>>
    /\ ~HasSender(id)
    /\ rx' = [rx EXCEPT ![id] = "ended"]
    /\ UNCHANGED <<topics, subscriptions, NEXT_ID, chan, got, idPush, subs, unsubs, pubs, storeVars, svcVars, netVars>>

\* the subscriber drops the stream (abnormal exit): queued responses are discarded
DropReceiver(id) ==
    /\ id \in Returned
    /\ rx[id] = "open"
    /\ rx' = [rx EXCEPT ![id] = "dropped"]
    /\ chan' = [chan EXCEPT ![id] = <<>>]
    /\ UNCHANGED <<topics, subscriptions, NEXT_ID, got, idPush, subs, unsubs, pubs, storeVars, svcVars, netVars>>

\* ------------------------------------------------------------------------
\* Command services (src/service/command_service.rs) and Service::execute
\* (src/service/mod.rs), on the store the server gives the Service: a MemTable

\* Kvpair::new(key, value)
KvpairNew(k, v) == [key |-> k, value |-> Some(v)]

\* the orders in which an iteration can visit the elements of S
Orders(S) ==
    {q \in [1..Cardinality(S) -> S] : \A i, j \in 1..Cardinality(S) : q[i] = q[j] => i = j}

\* mutant of MemGetAll: only keys that hold an integer are reported
MemGetAllIntegers(tbls, t) ==
    LET tb == GetOrCreateTable(tbls, t)[t]
        ks == {k \in DOMAIN tb : tb[k].tag = "Integer"}
    IN {[i \in 1..Cardinality(ks) |-> KvpairNew(q[i], tb[q[i]])] : q \in Orders(ks)}

\* MemTable::get_all: one Kvpair per entry of the table, in any order the DashMap
\* may iterate (the set of the possible vectors)
MemGetAll(tbls, t) ==
    LET tb == GetOrCreateTable(tbls, t)[t]
    IN {[i \in 1..Cardinality(DOMAIN tb) |-> KvpairNew(q[i], tb[q[i]])] : q \in Orders(DOMAIN tb)}

\* From<Vec<Kvpair>> for CommandResponse
ResponseFromPairs(ps) == [ResponseDefault EXCEPT !.status = 200, !.pairs = ps]

\* CommandRequest: request_data is one variant with its fields, or None ("None")
Request(variant, t, k, pair) == [variant |-> variant, table |-> t, key |-> k, pair |-> pair]

\* variants of RequestData that dispatch and dispatch_stream have no arm for
UnhandledVariants == {"Hmget", "Hmset", "Hdel", "Hmdel", "Hexist", "Hmexist"}

\* Kvpair.value of an Hset request: a Value or nothing
PairValues == {Some(ValueString(StrV1)), Some(ValueInteger(7)), None}

\* the table the model writes to; the other one stays absent
HsetTables == {StrT}

\* the requests the model sends
ServiceRequests ==
    {Request("Hget", t, k, None) : t \in TableNames, k \in KeyNames}
    \cup {Request("Hset", t, <<>>, Some([key |-> k, value |-> v])) :
             t \in HsetTables, k \in KeyNames, v \in PairValues}
    \cup {Request("Hset", t, <<>>, None) : t \in HsetTables}
    \cup {Request("Hgetall", t, <<>>, None) : t \in TableNames}
    \cup {Request("None", <<>>, <<>>, None)}
    \cup {Request(x, StrT, <<>>, None) : x \in UnhandledVariants}

\* Option<Value>::unwrap_or_default
UnwrapOrDefault(o) == IF o = None THEN ValueDefault ELSE o[1]

\* mutant of HgetExecute: an absent key is answered with the default Value
HgetExecuteDefault(req, tbls) ==
    ResponseFromValue(UnwrapOrDefault(MemGet(tbls, req.table, req.key)))

\* CommandService for Hget
HgetExecute(req, tbls) ==
    LET v == MemGet(tbls, req.table, req.key)
    IN IF v # None THEN ResponseFromValue(v[1])
       ELSE ResponseFromError(NotFoundError(<<req.table, req.key>>))

\* mutant of HsetExecute: an Hset without a pair is answered CommandResponse::default()
HsetExecuteNoPairDefault(req, tbls) ==
    IF req.pair = None THEN ResponseDefault
    ELSE ResponseFromValue(UnwrapOrDefault(MemGet(tbls, req.table, req.pair[1].key)))

\* CommandService for Hset
HsetExecute(req, tbls) ==
    IF req.pair = None THEN ResponseFromValue(ValueDefault)
    ELSE ResponseFromValue(UnwrapOrDefault(MemGet(tbls, req.table, req.pair[1].key)))

\* CommandService for Hgetall, all being the vector store.get_all returned
HgetallExecute(all) == ResponseFromPairs(all)

\* dispatch: the response
Dispatch(req, tbls, all) ==
    CASE req.variant = "Hget" -> HgetExecute(req, tbls)
      [] req.variant = "Hset" -> HsetExecute(req, tbls)
      [] req.variant = "Hgetall" -> HgetallExecute(all)
      [] req.variant = "None" -> ResponseFromError(InvalidCommandError(<<"Request has not data">>))
      [] OTHER -> ResponseDefault

\* mutant of StoreAfter: no request writes to the store
StoreAfterKeeps(req, tbls) == tbls

\* dispatch: the store afterwards (get and get_all create the table, set inserts)
StoreAfter(req, tbls) ==
    CASE req.variant \in {"Hget", "Hgetall"} -> GetOrCreateTable(tbls, req.table)
      [] req.variant = "Hset" /\ req.pair # None ->
            MemInsert(tbls, req.table, req.pair[1].key, UnwrapOrDefault(req.pair[1].value))
      [] OTHER -> tbls

\* history: the value of the latest set on each (table, key)
LatestAfter(req) ==
    IF req.variant = "Hset" /\ req.pair # None
    THEN [latest EXCEPT ![<<req.table, req.pair[1].key>>] = Some(UnwrapOrDefault(req.pair[1].value))]
    ELSE latest

\* ------------------------------------------------------------------------
\* Hooks

\* bound of the model: hooks registered per list
MaxHooks == 2

\* the functions the model registers: on_received a, b; on_executed c; on_before_send
\* d (sets the status to 201 CREATED) and note (writes the status it sees into the
\* message); on_after_send e
ReceivedHooks == {"a", "b"}
ExecutedHooks == {"c"}
BeforeSendHooks == {"d", "note"}
AfterSendHooks == {"e"}

\* what a hook registered with fn_before_send does to the response
HookEffect(h, res) ==
    IF h = "d" THEN [res EXCEPT !.status = 201]
    ELSE [res EXCEPT !.message = <<"status", res.status>>]

\* Notify for Vec<fn(&Arg)>: every function of the list is called with arg, in order
Notify(hooks, phase, arg) ==
    [i \in 1..Len(hooks) |-> [phase |-> phase, hook |-> hooks[i], arg |-> arg]]

\* mutant of NotifyMutResult: the hooks are run on a copy, the response is sent as it was
NotifyMutCopy(hooks, res) == res

\* NotifyMut for Vec<fn(&mut Arg)>: the response after every function has been called on it
RECURSIVE NotifyMutResult(_, _)
NotifyMutResult(hooks, res) ==
    IF hooks = <<>> THEN res
    ELSE NotifyMutResult(Tail(hooks), HookEffect(Head(hooks), res))

\* NotifyMut: the calls made, each with the response as the functions before it left it
NotifyMutLog(hooks, res) ==
    [i \in 1..Len(hooks) |->
        [phase |-> "on_before_send", hook |-> hooks[i],
         arg |-> NotifyMutResult(SubSeq(hooks, 1, i - 1), res)]]

\* ServiceInner::new(store): no hook; nothing executed; the connection task awaits a request
ServiceInit ==
    /\ svc = [on_received |-> <<>>, on_executed |-> <<>>, on_before_send |-> <<>>,
              on_after_send |-> <<>>, shared |-> FALSE]
    /\ served = [req |-> Request("None", <<>>, <<>>, None), path |-> "none", log |-> <<>>,
                 raw |-> ResponseDefault, res |-> <<>>, sent |-> <<>>, after_send |-> 0, before |-> <<>>,
                 stream |-> <<>>]
    /\ task = "idle"

InList(f, list) == \E i \in 1..Len(list) : list[i] = f

\* ServiceInner::fn_received
FnReceived(f) ==
    /\ ~svc.shared /\ Len(svc.on_received) < MaxHooks /\ ~InList(f, svc.on_received)
    /\ svc' = [svc EXCEPT !.on_received = Append(@, f)]
    /\ UNCHANGED <<served, task, storeVars, topicVars, netVars>>

\* ServiceInner::fn_executed
FnExecuted(f) ==
    /\ ~svc.shared /\ Len(svc.on_executed) < MaxHooks /\ ~InList(f, svc.on_executed)
    /\ svc' = [svc EXCEPT !.on_executed = Append(@, f)]
    /\ UNCHANGED <<served, task, storeVars, topicVars, netVars>>

\* ServiceInner::fn_before_send
FnBeforeSend(f) ==
    /\ ~svc.shared /\ Len(svc.on_before_send) < MaxHooks /\ ~InList(f, svc.on_before_send)
    /\ svc' = [svc EXCEPT !.on_before_send = Append(@, f)]
    /\ UNCHANGED <<served, task, storeVars, topicVars, netVars>>

\* ServiceInner::fn_after_send
FnAfterSend(f) ==
    /\ ~svc.shared /\ Len(svc.on_after_send) < MaxHooks /\ ~InList(f, svc.on_after_send)
    /\ svc' = [svc EXCEPT !.on_after_send = Append(@, f)]
    /\ UNCHANGED <<served, task, storeVars, topicVars, netVars>>

\* From<ServiceInner> for Service: the hook lists are behind an Arc from now on
ServiceFrom ==
    /\ ~svc.shared
    /\ svc' = [svc EXCEPT !.shared = TRUE]
    /\ UNCHANGED <<served, task, storeVars, topicVars, netVars>>

\* ProstServerStream::process reads a request and calls Service::execute on it:
\* on_received, dispatch, and then either dispatch_stream (which has no arm for the
\* variant and panics at unreachable!()) or on_executed, on_before_send and a stream
\* of the one response
Execute(req) ==
    /\ svc.shared
    /\ task = "idle"
    /\ \E all \in (IF req.variant = "Hgetall" THEN MemGetAll(tables, req.table) ELSE {<<>>}) :
        LET res == Dispatch(req, tables, all)
            unary == res # ResponseDefault
            out == NotifyMutResult(svc.on_before_send, res)
            log == Notify(svc.on_received, "on_received", req)
                   \o <<[phase |-> "dispatch", hook |-> "", arg |-> req]>>
                   \o (IF unary
                       THEN Notify(svc.on_executed, "on_executed", res)
                            \o NotifyMutLog(svc.on_before_send, res)
                       ELSE <<>>)
        IN /\ served' = [req |-> req, path |-> IF unary THEN "unary" ELSE "stream",
                         log |-> log, raw |-> res, res |-> IF unary THEN <<out>> ELSE <<>>,
                         sent |-> <<>>, after_send |-> 0, before |-> tables, stream |-> <<>>]
           /\ task' = IF unary THEN "sending" ELSE "panicked"
    /\ tables' = StoreAfter(req, tables)
    /\ latest' = LatestAfter(req)
    /\ setTables' = IF req.variant = "Hset" /\ req.pair # None
                    THEN setTables \cup {req.table} ELSE setTables
    /\ UNCHANGED <<tree, colonKey, lastCall, lastScan, concVars, svc, topicVars, netVars>>

\* process: resp.next() yields the response and stream.send(&v) hands it to the
\* transport; the stream has no further item and the loop awaits the next request
SendResponse ==
    /\ task = "sending"
    /\ served' = [served EXCEPT !.sent = Append(@, served.res[Len(@) + 1])]
    /\ task' = "idle"
    /\ UNCHANGED <<svc, storeVars, topicVars, netVars>>

\* process: stream.send(&v) fails and `?` returns the error
SendFails ==
    /\ task = "sending"
    /\ task' = "closed"
    /\ UNCHANGED <<svc, served, storeVars, topicVars, netVars>>

\* process: stream.next() yields None or an error, the loop ends
ClientClose ==
    /\ svc.shared
    /\ task = "idle"
    /\ task' = "closed"
    /\ UNCHANGED <<svc, served, storeVars, topicVars, netVars>>

\* server: the next connection is accepted and a task spawned to process it
Accept ==
    /\ task \in {"closed", "panicked"}
    /\ task' = "idle"
    /\ UNCHANGED <<svc, served, storeVars, topicVars, netVars>>

FnReceivedStep == \E f \in ReceivedHooks : FnReceived(f)
FnExecutedStep == \E f \in ExecutedHooks : FnExecuted(f)
FnBeforeSendStep == \E f \in BeforeSendHooks : FnBeforeSend(f)
FnAfterSendStep == \E f \in AfterSendHooks : FnAfterSend(f)
ExecuteStep == \E req \in ServiceRequests : Execute(req)

ServiceNext ==
    \/ FnReceivedStep
    \/ FnExecutedStep
    \/ FnBeforeSendStep
    \/ FnAfterSendStep
    \/ ServiceFrom
    \/ ExecuteStep
    \/ SendResponse
    \/ SendFails
    \/ ClientClose
    \/ Accept

\* ------------------------------------------------------------------------
\* Specifications

Ids == DOMAIN subs
Pubs == 1..Len(pubs)
Unsubs == 1..Len(unsubs)

SubscribeStep == \E name \in TopicNames : Subscribe(name)
SubscribeInsertStep == \E id \in Ids : SubscribeInsert(id)
IdPushStep == \E id \in Ids : IdPush(id)
UnsubscribeStep == \E name \in TopicNames, id \in UnsubIds : Unsubscribe(name, id)
UnsubRemoveTopicStep == \E u \in Unsubs : UnsubRemoveTopic(u)
UnsubRemoveSubStep == \E u \in Unsubs : UnsubRemoveSub(u)
PublishStep == \E name \in TopicNames : Publish(name)
PubGetStep == \E p \in Pubs : PubGet(p)
PubLookupStep == \E p \in Pubs, id \in Ids : PubLookup(p, id)
PubSendStep == \E p \in Pubs : PubSend(p)
PubReapRemoveIdStep == \E p \in Pubs : PubReapRemoveId(p)
PubReapRemoveTopicStep == \E p \in Pubs : PubReapRemoveTopic(p)
PubReapRemoveSubStep == \E p \in Pubs : PubReapRemoveSub(p)
RecvStep == \E id \in Ids : Recv(id)
StreamEndStep == \E id \in Ids : StreamEnd(id)
DropReceiverStep == \E id \in Ids : DropReceiver(id)

\* ------------------------------------------------------------------------
\* The multiplexed connection and the connection driver
\* (src/network/multiplex.rs, src/network/mod.rs)

\* Bounds: sub-streams opened on the connection, frames a client writes on one
\* sub-stream, messages a subscription's channel is given
Streams == 2
MaxCmds == 2
MaxItems == 2

SubStreams == 1..Streams

\* What a client may write on a sub-stream: a request with a unary reply, a Subscribe,
\* a request dispatch has no arm for, a frame that does not decode
FrameKinds == {"Hset", "Subscribe", "Hdel", "garbage"}

\* every sequence over S of length at most n
SeqsUpTo(S, n) == UNION {[1..k -> S] : k \in 0..n}

Inboxes == SeqsUpTo(FrameKinds, MaxCmds)

\* Service::execute: stream::once of the response for a unary request, the
\* ReceiverStream of the subscription's channel for Subscribe
ExecuteStream(kind) ==
    IF kind = "Subscribe" THEN [items |-> <<>>, open |-> TRUE, made |-> 0]
    ELSE [items |-> <<1>>, open |-> FALSE, made |-> 1]

\* mutant of StreamEnded: the loop would go on to the next request at once
StreamEndedEarly(resp) == TRUE

\* resp.next() yields None: nothing is queued and no sender is left
StreamEnded(resp) == resp.items = <<>> /\ ~resp.open

NoStream == [items |-> <<>>, open |-> FALSE, made |-> 0]

\* no connection yet
NetInit ==
    /\ conn = "none"
    /\ hs = [s \in SubStreams |->
                [pc |-> "absent", inbox |-> <<>>, pos |-> 0, resp |-> NoStream, ev |-> <<>>]]

\* YamuxCtrl::new: the connection is created and one task spawned for
\* into_stream(conn).try_for_each_concurrent(None, f)
YamuxNew ==
    /\ conn = "none"
    /\ conn' = "running"
    /\ UNCHANGED <<hs, codecVars, wireVars, storeVars, topicVars, svcVars>>

\* the client opens sub-stream s and will write inbox on it before closing it;
\* try_for_each_concurrent calls f on the inbound stream and polls its future
\* from now on: ProstServerStream::new and process, inside the connection's task
OpenStream(s, inbox) ==
    /\ conn = "running"
    /\ hs[s].pc = "absent"
    /\ hs' = [hs EXCEPT ![s] = [@ EXCEPT !.pc = "recv", !.inbox = inbox]]
    /\ UNCHANGED <<conn, codecVars, wireVars, storeVars, topicVars, svcVars>>

\* process: stream.next() yields Some(Ok(cmd)) and service.execute(cmd) returns
\* the response stream
ProcessExecute(s) ==
    LET h == hs[s] IN
    /\ conn = "running"
    /\ h.pc = "recv"
    /\ h.pos < Len(h.inbox)
    /\ h.inbox[h.pos + 1] \in {"Hset", "Subscribe"}
    /\ hs' = [hs EXCEPT ![s] = [@ EXCEPT !.pc = "resp", !.pos = h.pos + 1,
                 !.resp = ExecuteStream(h.inbox[h.pos + 1]),
                 !.ev = Append(h.ev, [type |-> "read", n |-> h.pos + 1,
                                      kind |-> h.inbox[h.pos + 1], item |-> 0])]]
    /\ UNCHANGED <<conn, codecVars, wireVars, storeVars, topicVars, svcVars>>

\* every handler future the connection's task was polling is dropped with it
Dropped(h) == IF h.pc \in {"recv", "resp"} THEN [h EXCEPT !.pc = "dropped"] ELSE h

\* process: service.execute(cmd) reaches unreachable!() in dispatch_stream; the panic
\* unwinds through the handler's future into the connection's task
ProcessExecutePanics(s) ==
    LET h == hs[s] IN
    /\ conn = "running"
    /\ h.pc = "recv"
    /\ h.pos < Len(h.inbox)
    /\ h.inbox[h.pos + 1] = "Hdel"
    /\ conn' = "panicked"
    /\ hs' = [t \in SubStreams |->
                 IF t = s THEN [h EXCEPT !.pc = "panicked", !.pos = h.pos + 1]
                 ELSE Dropped(hs[t])]
    /\ UNCHANGED <<codecVars, wireVars, storeVars, topicVars, svcVars>>

\* process: stream.next() yields Some(Err(_)), the peer having closed the sub-stream
\* or written a frame that does not decode; the while-let ends and process returns Ok(())
ProcessReceiveFails(s) ==
    LET h == hs[s] IN
    /\ conn = "running"
    /\ h.pc = "recv"
    /\ IF h.pos = Len(h.inbox) THEN TRUE ELSE h.inbox[h.pos + 1] = "garbage"
    /\ hs' = [hs EXCEPT ![s] = [@ EXCEPT !.pc = "returned"]]
    /\ UNCHANGED <<conn, codecVars, wireVars, storeVars, topicVars, svcVars>>

\* a publish enqueues a message on the subscription's channel
Enqueue(s) ==
    LET h == hs[s] IN
    /\ conn = "running"
    /\ h.pc = "resp"
    /\ h.resp.open
    /\ h.resp.made < MaxItems
    /\ hs' = [hs EXCEPT ![s] = [@ EXCEPT !.resp = [h.resp EXCEPT !.items = Append(@, h.resp.made + 1),
                                                                !.made = @ + 1]]]
    /\ UNCHANGED <<conn, codecVars, wireVars, storeVars, topicVars, svcVars>>

\* the subscription's sender is dropped (unsubscribe, or a publish that reaps the id)
SenderDropped(s) ==
    LET h == hs[s] IN
    /\ conn = "running"
    /\ h.pc = "resp"
    /\ h.resp.open
    /\ hs' = [hs EXCEPT ![s] = [@ EXCEPT !.resp = [h.resp EXCEPT !.open = FALSE]]]
    /\ UNCHANGED <<conn, codecVars, wireVars, storeVars, topicVars, svcVars>>

\* process: resp.next() yields Some(v) and stream.send(&v) succeeds
ProcessSend(s) ==
    LET h == hs[s] IN
    /\ conn = "running"
    /\ h.pc = "resp"
    /\ h.resp.items # <<>>
    /\ hs' = [hs EXCEPT ![s] = [@ EXCEPT !.resp = [h.resp EXCEPT !.items = Tail(@)],
                 !.ev = Append(h.ev, [type |-> "sent", n |-> h.pos, kind |-> h.inbox[h.pos],
                                      item |-> Head(h.resp.items)])]]
    /\ UNCHANGED <<conn, codecVars, wireVars, storeVars, topicVars, svcVars>>

\* start_yamux_server's handler: stream.process().await.unwrap(), so an Err from
\* process panics inside the one task that polls every handler of the connection
HandlerOutcome(res) == IF res = "Err" THEN "panicked" ELSE "running"

\* process: resp.next() yields Some(v), stream.send(&v) fails and `?` returns the error
ProcessSendFails(s) ==
    LET h == hs[s] IN
    /\ conn = "running"
    /\ h.pc = "resp"
    /\ h.resp.items # <<>>
    /\ conn' = HandlerOutcome("Err")
    /\ hs' = [t \in SubStreams |->
                 IF t = s THEN [h EXCEPT !.pc = "failed"]
                 ELSE IF conn' = "panicked" THEN Dropped(hs[t]) ELSE hs[t]]
    /\ UNCHANGED <<codecVars, wireVars, storeVars, topicVars, svcVars>>

\* process: resp.next() yields None and the outer loop awaits the next request
ProcessStreamEnds(s) ==
    LET h == hs[s] IN
    /\ conn = "running"
    /\ h.pc = "resp"
    /\ StreamEnded(h.resp)
    /\ hs' = [hs EXCEPT ![s] = [@ EXCEPT !.pc = "recv",
                 !.ev = Append(h.ev, [type |-> "end", n |-> h.pos, kind |-> h.inbox[h.pos],
                                      item |-> h.resp.made])]]
    /\ UNCHANGED <<conn, codecVars, wireVars, storeVars, topicVars, svcVars>>

OpenStreamStep == \E s \in SubStreams, inbox \in Inboxes : OpenStream(s, inbox)
ProcessExecuteStep == \E s \in SubStreams : ProcessExecute(s)
ProcessExecutePanicsStep == \E s \in SubStreams : ProcessExecutePanics(s)
ProcessReceiveFailsStep == \E s \in SubStreams : ProcessReceiveFails(s)
EnqueueStep == \E s \in SubStreams : Enqueue(s)
SenderDroppedStep == \E s \in SubStreams : SenderDropped(s)
ProcessSendStep == \E s \in SubStreams : ProcessSend(s)
ProcessSendFailsStep == \E s \in SubStreams : ProcessSendFails(s)
ProcessStreamEndsStep == \E s \in SubStreams : ProcessStreamEnds(s)

MuxNext ==
    \/ YamuxNew
    \/ OpenStreamStep
    \/ ProcessExecuteStep
    \/ ProcessExecutePanicsStep
    \/ ProcessReceiveFailsStep
    \/ EnqueueStep
    \/ SenderDroppedStep
    \/ ProcessSendStep
    \/ ProcessSendFailsStep
    \/ ProcessStreamEndsStep

\* ------------------------------------------------------------------------

\* ------------------------------------------------------------------------
\* Frames (src/network/frame.rs)
\*
\* A byte buffer is a sequence of numbers 0..255.  A usize or u32 value is kept as
\* [hi, lo]: lo is bits 0..30, hi is what lies above them, so that sizes of
\* 2 GiB and more, the compression flag and the `as u32` casts are computed.

LEN_LEN == 4
COMPRESSION_LIMIT == 1436

\* !COMPRESSION_BIT on a u32: bits 0..30
LEN_MASK == 2147483647

Usize(n) == [hi |-> 0, lo |-> n]

\* 2 * 1024 * 1024 * 1024
MAX_FRAME == [hi |-> 1, lo |-> 0]

\* 1 << 31
COMPRESSION_BIT == [hi |-> 1, lo |-> 0]

\* a + n, for n below 2^31
UsizeAdd(a, n) ==
    IF a.lo > LEN_MASK - n
    THEN [hi |-> a.hi + 1, lo |-> a.lo - (LEN_MASK - n) - 1]
    ELSE [hi |-> a.hi, lo |-> a.lo + n]

\* a >= b
UsizeGe(a, b) == a.hi > b.hi \/ (a.hi = b.hi /\ a.lo >= b.lo)

\* (x | COMPRESSION_BIT) as u32
OrCompressionBit(x) == [hi |-> 1, lo |-> x.lo]

\* BufMut::put_u32: four bytes, big endian, of the value cast to u32
PutU32(x) ==
    <<((x.hi % 2) * 128) + (x.lo \div 16777216), (x.lo \div 65536) % 256,
      (x.lo \div 256) % 256, x.lo % 256>>

\* Buf::get_u32 on the first four bytes
GetU32(b) == [hi |-> b[1] \div 128,
              lo |-> ((b[1] % 128) * 16777216) + (b[2] * 65536) + (b[3] * 256) + b[4]]

\* decode_header
DecodeHeader(header) == [len |-> header.lo, compressed |-> header.hi % 2 = 1]

\* A String of n times the character ch
Str(ch, n) == [ch |-> IF n = 0 THEN 0 ELSE ch, n |-> n]
StrBytes(s) == [i \in 1..s.n |-> s.ch]

\* the String a run of bytes decodes to; one that is not n times one character is
\* outside the strings written here and kept apart from all of them
StrOf(b) ==
    IF \A i \in 1..Len(b) : b[i] = b[1] THEN Str(IF b = <<>> THEN 0 ELSE b[1], Len(b))
    ELSE [ch |-> -1, n |-> Len(b)]

\* CommandResponse with its status and message (values and pairs empty)
FrameResponse(status, message) == [status |-> status, message |-> message]

\* protobuf varint
RECURSIVE Varint(_)
Varint(n) == IF n < 128 THEN <<n>> ELSE <<(n % 128) + 128>> \o Varint(n \div 128)

RECURSIVE VarintLen(_)
VarintLen(n) == IF n < 128 THEN 1 ELSE 1 + VarintLen(n \div 128)

\* Message::encoded_len: status is field 1 (key 8), message field 2 (key 18); a
\* field holding its default is not written
EncodedLen(m) ==
    UsizeAdd(Usize((IF m.status = 0 THEN 0 ELSE 1 + VarintLen(m.status))
                   + (IF m.message.n = 0 THEN 0 ELSE 1 + VarintLen(m.message.n))),
             m.message.n)

\* Message::encode
Encode(m) ==
    (IF m.status = 0 THEN <<>> ELSE <<8>> \o Varint(m.status))
    \o (IF m.message.n = 0 THEN <<>> ELSE <<18>> \o Varint(m.message.n) \o StrBytes(m.message))

\* a varint of at most four bytes read at b[i]
RECURSIVE ReadVarint(_, _, _)
ReadVarint(b, i, k) ==
    IF i > Len(b) \/ k > 4 THEN [ok |-> FALSE, value |-> 0, next |-> i]
    ELSE IF b[i] < 128 THEN [ok |-> TRUE, value |-> b[i], next |-> i + 1]
    ELSE LET r == ReadVarint(b, i + 1, k + 1)
         IN [ok |-> r.ok, value |-> (b[i] - 128) + 128 * r.value, next |-> r.next]

DecodeErr == [ok |-> FALSE, error |-> "DecodeError"]
IoErr == [ok |-> FALSE, error |-> "IOError"]
Decoded(m) == [ok |-> TRUE, msg |-> m]

\* Message::decode, fields merged from b[i] on; a key other than the two fields is
\* taken as a decode error
RECURSIVE DecodeFields(_, _, _)
DecodeFields(b, i, m) ==
    IF i > Len(b) THEN Decoded(m)
    ELSE IF b[i] = 8
    THEN LET v == ReadVarint(b, i + 1, 1)
         IN IF ~v.ok THEN DecodeErr
            ELSE DecodeFields(b, v.next, [m EXCEPT !.status = v.value])
    ELSE IF b[i] = 18
    THEN LET v == ReadVarint(b, i + 1, 1)
         IN IF ~v.ok THEN DecodeErr
            ELSE IF v.next + v.value - 1 > Len(b) THEN DecodeErr
            ELSE DecodeFields(b, v.next + v.value,
                              [m EXCEPT !.message = StrOf(SubSeq(b, v.next, v.next + v.value - 1))])
    ELSE DecodeErr

Decode(b) == DecodeFields(b, 1, FrameResponse(0, Str(0, 0)))

\* GzEncoder / GzDecoder, as a run-length coding behind the gzip magic bytes: one
\* member is <<31, 139, k>> and k runs <<length \div 256, length % 256, byte>>
RunStarts(b) == {i \in 1..Len(b) : IF i = 1 THEN TRUE ELSE b[i] # b[i - 1]}

RECURSIVE Sorted(_)
Sorted(S) ==
    IF S = {} THEN <<>>
    ELSE LET lo == CHOOSE x \in S : \A y \in S : x <= y IN <<lo>> \o Sorted(S \ {lo})

GzEncode(b) ==
    LET st == Sorted(RunStarts(b))
        k == Len(st)
        len(j) == (IF j = k THEN Len(b) + 1 ELSE st[j + 1]) - st[j]
    IN <<31, 139, k>> \o
       [i \in 1..3 * k |->
           LET j == (i - 1) \div 3 + 1
           IN CASE (i - 1) % 3 = 0 -> len(j) \div 256
                [] (i - 1) % 3 = 1 -> len(j) % 256
                [] OTHER -> b[st[j]]]

RECURSIVE ExpandRuns(_, _, _)
ExpandRuns(b, j, k) ==
    IF j > k THEN <<>>
    ELSE [i \in 1..(b[3 * j + 1] * 256 + b[3 * j + 2]) |-> b[3 * j + 3]] \o ExpandRuns(b, j + 1, k)

\* GzDecoder::read_to_end: the first member, whatever follows it is not read
GzDecode(b) ==
    IF Len(b) < 3 THEN IoErr
    ELSE IF b[1] # 31 \/ b[2] # 139 THEN IoErr
    ELSE IF Len(b) < 3 + 3 * b[3] THEN IoErr
    ELSE [ok |-> TRUE, bytes |-> ExpandRuns(b, 1, b[3])]

\* size > COMPRESSION_LIMIT
Compresses(size) == size.lo > COMPRESSION_LIMIT

\* buf.split_off(LEN_LEN): the handle returned holds everything from index 4 on
PayloadAfterSplit(buf) == SubSeq(buf, LEN_LEN + 1, Len(buf))

\* FrameCoder::encode_frame: the error, if any, and the buffer afterwards
EncodeFrame(m, buf) ==
    LET size == EncodedLen(m) IN
    IF UsizeGe(size, MAX_FRAME) THEN [error |-> "FrameTooLarge", buf |-> buf]
    ELSE LET sized == buf \o PutU32(size) IN
         IF Compresses(size)
         THEN LET buf1 == Encode(m)
                  payload == PayloadAfterSplit(sized) \o GzEncode(buf1)
              IN [error |-> "",
                  buf |-> PutU32(OrCompressionBit(Usize(Len(payload)))) \o payload]
         ELSE [error |-> "", buf |-> sized \o Encode(m)]

\* Buf::advance
Advance(b, n) == SubSeq(b, n + 1, Len(b))

\* FrameCoder::decode_frame: the result and the buffer afterwards; get_u32 panics
\* on fewer than four bytes, slicing buf[..len] when fewer than len bytes follow them
DecodeFrame(buf) ==
    LET h == DecodeHeader(GetU32(buf))
        rest == Advance(buf, LEN_LEN)
    IN IF Len(buf) < LEN_LEN THEN [res |-> [ok |-> FALSE, error |-> "panic"], buf |-> buf]
       ELSE IF Len(rest) < h.len THEN [res |-> [ok |-> FALSE, error |-> "panic"], buf |-> rest]
       ELSE IF h.compressed
       THEN LET g == GzDecode(SubSeq(rest, 1, h.len))
            IN IF ~g.ok THEN [res |-> IoErr, buf |-> rest]
               ELSE [res |-> Decode(g.bytes), buf |-> Advance(rest, h.len)]
       ELSE LET d == Decode(SubSeq(rest, 1, h.len))
            IN IF ~d.ok THEN [res |-> d, buf |-> rest]
               ELSE [res |-> d, buf |-> Advance(rest, h.len)]

\* Bound: frames encoded into one buffer
MaxFrames == 2

\* the characters and lengths of the messages written, the statuses of the responses
\* (1433 and 1434 characters put the encoded size at and just above COMPRESSION_LIMIT;
\* 2147483642 characters put it at 2 GiB)
MessageLengths == {0, 3, 1433, 1434, 2147483642}
Statuses == {0, 200}
FrameMessages == {FrameResponse(s, Str(120, n)) : s \in Statuses, n \in MessageLengths}

NoMessage == FrameResponse(0, Str(0, 0))

\* a BytesMut::new() and nothing done with it
CodecInit ==
    /\ cbuf = <<>>
    /\ cq = <<>>
    /\ clog = <<>>

\* m.encode_frame(&mut buf)
CodecEncode(m) ==
    LET r == EncodeFrame(m, cbuf) IN
    /\ Len(SelectSeq(clog, LAMBDA e : e.op = "encode")) < MaxFrames
    /\ cbuf' = r.buf
    /\ cq' = IF r.error = "" THEN Append(cq, m) ELSE cq
    /\ clog' = Append(clog, [op |-> "encode", msg |-> m, error |-> r.error,
                             res |-> Decoded(NoMessage), before |-> cbuf, after |-> r.buf])
    /\ UNCHANGED <<wireVars, muxVars, storeVars, topicVars, svcVars>>

\* CommandResponse::decode_frame(&mut buf), on a buffer that holds a frame not yet decoded
CodecDecode ==
    LET r == DecodeFrame(cbuf) IN
    /\ cq # <<>>
    /\ cbuf' = r.buf
    /\ cq' = Tail(cq)
    /\ clog' = Append(clog, [op |-> "decode", msg |-> Head(cq), error |-> "",
                             res |-> r.res, before |-> cbuf, after |-> r.buf])
    /\ UNCHANGED <<wireVars, muxVars, storeVars, topicVars, svcVars>>

CodecEncodeStep == \E m \in FrameMessages : CodecEncode(m)

CodecNext ==
    \/ CodecEncodeStep
    \/ CodecDecode

\* ------------------------------------------------------------------------
\* The framed stream (src/network/stream.rs) with read_frame (src/network/frame.rs):
\* one ProstStream that sends, the byte stream, and the peer's ProstStream that receives

\* Bound: polls of the receiving stream
MaxPolls == 3

\* the messages handed to start_send
SendMessages ==
    {FrameResponse(200, Str(120, 3)), FrameResponse(0, Str(120, 1433)),
     FrameResponse(0, Str(120, 1434)), FrameResponse(0, Str(120, 2147483642))}

\* what one poll of poll_flush gets written: all that is left, or, at the first
\* poll_write of a flush, two or six bytes before the byte stream is not ready
FlushChoices(left, done) == {left} \cup (IF done = 0 THEN {k \in {2, 6} : k < left} ELSE {})

\* ProstStream::new on both ends of a byte stream
WireInit ==
    /\ wbuf = <<>>
    /\ written = 0
    /\ wire = <<>>
    /\ closed = FALSE
    /\ accepted = <<>>
    /\ sentBytes = <<>>
    /\ rbuf = <<>>
    /\ polled = <<>>

\* Sink::start_send
StartSend(m) ==
    LET r == EncodeFrame(m, wbuf) IN
    /\ ~closed
    /\ Len(accepted) < MaxFrames
    /\ wbuf' = r.buf
    /\ accepted' = IF r.error = "" THEN Append(accepted, m) ELSE accepted
    /\ UNCHANGED <<written, wire, closed, sentBytes, rbuf, polled,
                   codecVars, muxVars, storeVars, topicVars, svcVars>>

\* Sink::poll_flush, one poll: k more bytes are written; when nothing is left the
\* buffer is cleared, else the poll is Pending
PollFlush(k) ==
    /\ ~closed
    /\ wire' = wire \o SubSeq(wbuf, written + 1, written + k)
    /\ sentBytes' = sentBytes \o SubSeq(wbuf, written + 1, written + k)
    /\ IF written + k = Len(wbuf)
       THEN wbuf' = <<>> /\ written' = 0
       ELSE wbuf' = wbuf /\ written' = written + k
    /\ UNCHANGED <<closed, accepted, rbuf, polled,
                   codecVars, muxVars, storeVars, topicVars, svcVars>>

\* Sink::poll_close: poll_flush to the end, then poll_shutdown
PollClose ==
    /\ ~closed
    /\ wire' = wire \o SubSeq(wbuf, written + 1, Len(wbuf))
    /\ sentBytes' = sentBytes \o SubSeq(wbuf, written + 1, Len(wbuf))
    /\ wbuf' = <<>>
    /\ written' = 0
    /\ closed' = TRUE
    /\ UNCHANGED <<accepted, rbuf, polled, codecVars, muxVars, storeVars, topicVars, svcVars>>

\* what a poll of poll_next returned
Polled(kind, res, avail) == [kind |-> kind, res |-> res, eof |-> closed, avail |-> avail]

\* read_u32 or read_exact meets the end of the byte stream: UnexpectedEof, which `?`
\* in poll_next turns into Poll::Ready(Some(Err(_)))
AtEof(avail) == "item"

\* Stream::poll_next, one poll: read_frame on a new future, then decode_frame.  A poll
\* that is Pending drops the future, and with it the bytes it had read so far.
PollNext ==
    LET avail == Len(wire)
        header == DecodeHeader(GetU32(wire))
        whole == IF avail < LEN_LEN THEN FALSE ELSE avail - LEN_LEN >= header.len
        r == DecodeFrame(SubSeq(wire, 1, LEN_LEN + header.len))
    IN /\ Len(polled) < MaxPolls
       /\ avail > 0 \/ closed
       /\ IF rbuf # <<>>
          THEN /\ polled' = Append(polled, Polled("panic", IoErr, avail))
               /\ UNCHANGED <<wire, rbuf>>
          ELSE IF whole
          THEN /\ polled' = Append(polled, Polled("item", r.res, avail))
               /\ rbuf' = r.buf
               /\ wire' = Advance(wire, LEN_LEN + header.len)
          ELSE /\ polled' = Append(polled, IF closed THEN Polled(AtEof(avail), IoErr, avail)
                                           ELSE Polled("pending", IoErr, avail))
               /\ rbuf' = rbuf
               /\ wire' = <<>>
       /\ UNCHANGED <<wbuf, written, closed, accepted, sentBytes,
                      codecVars, muxVars, storeVars, topicVars, svcVars>>

StartSendStep == \E m \in SendMessages : StartSend(m)
PollFlushStep == \E k \in FlushChoices(Len(wbuf) - written, written) : PollFlush(k)

WireNext ==
    \/ StartSendStep
    \/ PollFlushStep
    \/ PollClose
    \/ PollNext

\* ------------------------------------------------------------------------

\* ------------------------------------------------------------------------
\* Scans of a table: get_all and get_iter on both backends

\* SledDb::get_table_prefix
GetTablePrefix(t) == t \o <<Colon>>

\* a starts with p
StartsWith(a, p) == Len(p) <= Len(a) /\ SubSeq(a, 1, Len(p)) = p

\* the order of sled's keys: byte-wise lexicographic
BytesLess(a, b) ==
    \E i \in 1..(Len(b)) :
        /\ \A j \in 1..(i - 1) : j <= Len(a) /\ a[j] = b[j]
        /\ IF i > Len(a) THEN TRUE ELSE a[i] < b[i]

\* Tree::scan_prefix: the names that start with the prefix, in key order
ScanPrefix(tr, prefix) ==
    LET names == {n \in DOMAIN tr : StartsWith(n, prefix)}
    IN CHOOSE q \in Orders(names) : \A i, j \in 1..Cardinality(names) : i < j => BytesLess(q[i], q[j])

\* mutant of IvecToKey: the first of the pieces (the second iter.next() is missing)
IvecToKeyFirst(name) ==
    LET first == CHOOSE i \in 1..Len(name) : name[i] = Colon /\ \A j \in 1..(i - 1) : name[j] # Colon
    IN SubSeq(name, 1, first - 1)

\* ivec_to_key: the second of the pieces that split(':') cuts the name into
IvecToKey(name) ==
    LET first == CHOOSE i \in 1..Len(name) : name[i] = Colon /\ \A j \in 1..(i - 1) : name[j] # Colon
        rest == SubSeq(name, first + 1, Len(name))
        stops == {i \in 1..Len(rest) : rest[i] = Colon}
        stop == IF stops = {} THEN Len(rest) + 1
                ELSE CHOOSE i \in stops : \A j \in stops : i <= j
    IN SubSeq(rest, 1, stop - 1)

\* From<Result<(IVec, IVec), sled::Error>> for Kvpair
KvpairFromIvec(tr, name) == KvpairNew(IvecToKey(name), DecodeValue(tr[name]))

\* SledDb::get_all
SledGetAll(tr, t) ==
    LET names == ScanPrefix(tr, GetTablePrefix(t))
    IN [i \in 1..Len(names) |-> KvpairFromIvec(tr, names[i])]

\* SledDb::get_iter, drained: StorageIter converts each item of the same scan
SledGetIter(tr, t) == Scanned(SledGetAll(tr, t))

\* MemTable::get_iter: todo!()
MemGetIter(tbls, t) == ScanPanics

Scan(op, t, m, s, mAll, sAll) ==
    [op |-> op, table |-> t, fresh |-> t \notin setTables, mem |-> m, sled |-> s,
     memAll |-> mAll, sledAll |-> sAll]

StorageGetAll(t) ==
    /\ tables' = GetOrCreateTable(tables, t)
    /\ \E all \in MemGetAll(tables, t) :
        lastScan' = Scan("get_all", t, Scanned(all), Scanned(SledGetAll(tree, t)),
                         all, SledGetAll(tree, t))
    /\ UNCHANGED <<tree, latest, colonKey, lastCall, setTables, concVars>>

\* get_iter, drained at once, beside what get_all returns at that moment
StorageGetIter(t) ==
    /\ \E all \in MemGetAll(tables, t) :
        lastScan' = Scan("get_iter", t, MemGetIter(tables, t), SledGetIter(tree, t),
                         all, SledGetAll(tree, t))
    /\ UNCHANGED <<tables, tree, latest, colonKey, lastCall, setTables, concVars>>

StorageScan == \E t \in TableNames : StorageGetAll(t) \/ StorageGetIter(t)

\* ------------------------------------------------------------------------
\* Concurrent callers of one MemTable, all on table "t" and key "k". A call
\* is get_or_create_table (tables.get, then tables.entry(..).or_default() when
\* the table was not found) followed by one operation of the table's DashMap.

\* mutant of EntryOrDefault: the entry is overwritten with an empty table
EntryInsertDefault(tbls, t) == [x \in DOMAIN tbls \cup {t} |-> IF x = t THEN <<>> ELSE tbls[x]]

\* DashMap::entry(name).or_default(): an empty table unless one is there
EntryOrDefault(tbls, t) == GetOrCreateTable(tbls, t)

\* set, del or get is called: each set writes a value of its own
CallStart(w, op) ==
    /\ callers[w].pc = "idle"
    /\ calls < MaxCalls
    /\ calls' = calls + 1
    /\ callers' = [callers EXCEPT ![w] = [pc |-> "lookup", op |-> op,
                                          value |-> IF op = "set" THEN ValueInteger(calls + 1)
                                                    ELSE ValueDefault,
                                          created |-> FALSE]]
    /\ UNCHANGED <<tables, lin>>

\* get_or_create_table: self.tables.get(name)
TablesGet(w) ==
    /\ callers[w].pc = "lookup"
    /\ callers' = [callers EXCEPT ![w].pc = IF StrT \in DOMAIN tables THEN "table" ELSE "create"]
    /\ UNCHANGED <<tables, lin, calls>>

\* get_or_create_table: self.tables.entry(name.into()).or_default(), which waits
\* for the shard while another caller holds a Ref into it
TablesEntry(w) ==
    /\ callers[w].pc = "create"
    /\ \A o \in 1..Callers : callers[o].pc # "table"
    /\ tables' = EntryOrDefault(tables, StrT)
    /\ callers' = [callers EXCEPT ![w].pc = "table", ![w].created = TRUE]
    /\ UNCHANGED <<lin, calls>>

\* table.insert(key, value) / table.remove(key) / table.get(key): one operation
\* of the DashMap, and the call returns
TableOp(w) ==
    LET c == callers[w]
    IN /\ c.pc = "table"
       /\ tables' = CASE c.op = "set" -> MemInsert(tables, StrT, StrK, c.value)
                      [] c.op = "del" -> MemRemove(tables, StrT, StrK)
                      [] OTHER -> tables
       /\ lin' = Append(lin, [caller |-> w, op |-> c.op, value |-> c.value,
                              created |-> c.created, ret |-> MemGet(tables, StrT, StrK)])
       /\ callers' = [callers EXCEPT ![w] = Idle]
       /\ UNCHANGED calls

CallStartStep == \E w \in 1..Callers, op \in {"set", "del", "get"} : CallStart(w, op)
TablesGetStep == \E w \in 1..Callers : TablesGet(w)
TablesEntryStep == \E w \in 1..Callers : TablesEntry(w)
TableOpStep == \E w \in 1..Callers : TableOp(w)

ConcNext ==
    /\ \/ CallStartStep
       \/ TablesGetStep
       \/ TablesEntryStep
       \/ TableOpStep
    /\ UNCHANGED <<tree, latest, colonKey, lastCall, setTables, lastScan, topicVars, svcVars, netVars>>

\* ------------------------------------------------------------------------
\* Service::execute on Subscribe, Unsubscribe and Publish requests. The calls into
\* the Broadcaster are the actions of the topic model above; here the stream that
\* dispatch_stream hands back is an input, and the action is execute's own part:
\* the hooks it runs and what it returns.

\* the variants dispatch_stream has an arm for
TopicVariants == {"Subscribe", "Unsubscribe", "Publish"}

\* the requests of the three variants
TopicRequests == {Request(x, "a", <<>>, None) : x \in TopicVariants}

\* the responses the stream of dispatch_stream yields, as the topic services build it
StreamsOf(req) ==
    CASE req.variant = "Subscribe" ->
            {<<IdMessage(id)>> \o ms : id \in {1, 2},
                                      ms \in {<<>>, <<PublishMessage(PublishedValues(1))>>}}
      [] req.variant = "Unsubscribe" ->
            {UnsubscribeReply(UnsubscribeResult(r, 1)) : r \in {None, Some(1)}}
      [] OTHER -> {PublishReply}

\* mutant of StreamReturned: every response of the stream passes the on_before_send hooks
StreamHooked(hooks, items) == [i \in 1..Len(items) |-> NotifyMutResult(hooks, items[i])]

\* execute, line 40: the stream of dispatch_stream is returned as it is
StreamReturned(hooks, items) == items

\* Service::execute on a request that dispatch answers with the sentinel and
\* dispatch_stream has an arm for
ExecuteTopic(req, items) ==
    /\ svc.shared
    /\ task = "idle"
    /\ Dispatch(req, tables, <<>>) = ResponseDefault
    /\ served' = [req |-> req, path |-> "stream",
                  log |-> Notify(svc.on_received, "on_received", req)
                          \o <<[phase |-> "dispatch", hook |-> "", arg |-> req],
                               [phase |-> "dispatch_stream", hook |-> "", arg |-> req]>>,
                  raw |-> ResponseDefault,
                  res |-> StreamReturned(svc.on_before_send, items),
                  sent |-> <<>>, after_send |-> 0, before |-> tables, stream |-> items]
    /\ task' = "streaming"
    /\ UNCHANGED <<svc, storeVars, topicVars, netVars>>

\* process: resp.next() yields the next response of the stream and stream.send(&v)
\* hands it to the transport
StreamSend ==
    /\ task = "streaming"
    /\ served' = [served EXCEPT !.sent = Append(@, served.res[Len(@) + 1])]
    /\ task' = IF Len(served.sent) + 1 = Len(served.res) THEN "idle" ELSE "streaming"
    /\ UNCHANGED <<svc, storeVars, topicVars, netVars>>

ExecuteTopicStep == \E req \in TopicRequests : \E items \in StreamsOf(req) : ExecuteTopic(req, items)

StreamPathNext ==
    \/ FnReceivedStep
    \/ FnExecutedStep
    \/ FnBeforeSendStep
    \/ FnAfterSendStep
    \/ ServiceFrom
    \/ ExecuteTopicStep
    \/ StreamSend

TopicNext ==
    \/ SubscribeStep
    \/ SubscribeInsertStep
    \/ IdPushStep
    \/ UnsubscribeStep
    \/ UnsubRemoveTopicStep
    \/ UnsubRemoveSubStep
    \/ PublishStep
    \/ PubGetStep
    \/ PubLookupStep
    \/ PubSendStep
    \/ PubReapRemoveIdStep
    \/ PubReapRemoveTopicStep
    \/ PubReapRemoveSubStep
    \/ RecvStep
    \/ StreamEndStep
    \/ DropReceiverStep

Init == StoreInit /\ TopicInit /\ ServiceInit /\ NetInit /\ CodecInit /\ WireInit
Next == TopicNext

\* The broadcaster, from construction
Spec == Init /\ [][Next]_vars

\* The broadcaster after subscribe("a") has returned id 1 and publishes to "a" have
\* filled the subscriber's channel, or all but one slot of it, while it read nothing
BacklogMessage == PublishMessage(<<ValueInteger(0)>>)
BacklogInit ==
    /\ StoreInit
    /\ ServiceInit
    /\ NetInit
    /\ CodecInit
    /\ WireInit
    /\ topics = [t \in {"a"} |-> {1}]
    /\ subscriptions = {1}
    /\ NEXT_ID = 2
    /\ \E n \in {BROADCAST_CAPACITY - 1, BROADCAST_CAPACITY} :
           chan = [i \in {1} |-> [j \in 1..n |-> IF j = 1 THEN IdMessage(1) ELSE BacklogMessage]]
    /\ rx = [i \in {1} |-> "open"]
    /\ got = [i \in {1} |-> <<>>]
    /\ idPush = {}
    /\ subs = [i \in {1} |-> [name |-> "a", pc |-> "done"]]
    /\ unsubs = <<>>
    /\ pubs = <<>>
SpecBacklog == BacklogInit /\ [][Next]_vars

\* ------------------------------------------------------------------------
\* Several broadcasters in one process

\* mutant of NextIdKept: every Broadcaster would start its own count
NextIdReset(n) == 1

\* static NEXT_ID is no field of Broadcaster: constructing one leaves the counter alone
NextIdKept(n) == n

\* ids in the subscriber sets of the current Broadcaster
TopicIds == UNION {topics[t] : t \in DOMAIN topics}

\* Arc::new(Broadcaster::default()) once more in the same process (a new Service, a
\* new test): the maps are empty, the earlier broadcaster and its senders are dropped,
\* the receivers handed out stay with their subscribers
NewBroadcaster ==
    /\ topics # <<>>
    /\ \A id \in DOMAIN subs : subs[id].pc = "done"
    /\ topics' = <<>>
    /\ subscriptions' = {}
    /\ NEXT_ID' = NextIdKept(NEXT_ID)
    /\ UNCHANGED <<chan, rx, got, idPush, subs, unsubs, pubs, storeVars, svcVars, netVars>>

FreshNext ==
    \/ SubscribeStep
    \/ SubscribeInsertStep
    \/ IdPushStep
    \/ RecvStep
    \/ StreamEndStep
    \/ DropReceiverStep
    \/ NewBroadcaster

\* Broadcasters constructed one after the other in one process, and their subscribers
SpecFresh == Init /\ [][FreshNext]_vars

\* A Service built with its hooks, and the connections it serves one after the other
SpecService == Init /\ [][ServiceNext]_vars

\* One multiplexed connection, its sub-streams and their handlers
SpecMux == Init /\ [][MuxNext]_vars

\* A buffer that frames are encoded into and decoded from
SpecCodec == Init /\ [][CodecNext]_vars

\* A framed stream and its peer
SpecWire == Init /\ [][WireNext]_vars

\* The storage backends, from construction
StoreNext == StorageCall /\ UNCHANGED <<topicVars, svcVars, netVars>>
SpecStore == Init /\ [][StoreNext]_vars

\* The storage backends with their scans
ScanNext == (StorageCall \/ StorageScan) /\ UNCHANGED <<topicVars, svcVars, netVars>>
SpecScan == Init /\ [][ScanNext]_vars

\* Concurrent callers of one MemTable
SpecConc == Init /\ [][ConcNext]_vars

\* A Service that serves Subscribe, Unsubscribe and Publish requests
SpecStreamPath == Init /\ [][StreamPathNext]_vars

\* The broadcaster after subscribe("a") has returned ids 1 and 2, subscriber 2 has
\* read its id message, and publishes to "a" have filled the channel of subscriber 1,
\* which holds its receiver and reads nothing from here on
StallInit ==
    /\ StoreInit
    /\ ServiceInit
    /\ NetInit
    /\ CodecInit
    /\ WireInit
    /\ topics = [t \in {"a"} |-> {1, 2}]
    /\ subscriptions = {1, 2}
    /\ NEXT_ID = 3
    /\ chan = [i \in {1, 2} |-> IF i = 2 THEN <<>>
                               ELSE [j \in 1..BROADCAST_CAPACITY |->
                                        IF j = 1 THEN IdMessage(1) ELSE BacklogMessage]]
    /\ rx = [i \in {1, 2} |-> "open"]
    /\ got = [i \in {1, 2} |-> IF i = 2 THEN <<IdMessage(2)>> ELSE <<>>]
    /\ idPush = {}
    /\ subs = [i \in {1, 2} |-> [name |-> "a", pc |-> "done"]]
    /\ unsubs = <<>>
    /\ pubs = <<>>

\* the subscribers other than subscriber 1 read
ReaderRecvStep == \E id \in Ids \ {1} : Recv(id)

StallNext ==
    \/ PublishStep
    \/ PubGetStep
    \/ PubLookupStep
    \/ PubSendStep
    \/ ReaderRecvStep

\* the runtime runs every spawned fan-out task that can take a step, and the
\* reading subscribers read
SpecStall ==
    /\ StallInit
    /\ [][StallNext]_vars
    /\ WF_vars(PubGetStep)
    /\ WF_vars(PubLookupStep)
    /\ WF_vars(PubSendStep)
    /\ WF_vars(ReaderRecvStep)

\* ------------------------------------------------------------------------
\* Claims about the storage backends (checked under SpecStore)

\* what the last call had to return, given the value `latest` held before it
Expected(c) == IF c.op = "contains" THEN Some(c.before # None) ELSE c.before

MemAgrees ==
    /\ \A t \in TableNames, k \in KeyNames :
        /\ MemGet(tables, t, k) = latest[<<t, k>>]
        /\ MemContains(tables, t, k) = (MemGet(tables, t, k) # None)
    /\ lastCall.op # "none" => lastCall.mem = Expected(lastCall)

SledAgreesOn(keys) ==
    /\ \A t \in TableNames, k \in keys :
        /\ SledGet(tree, t, k) = latest[<<t, k>>]
        /\ SledContains(tree, t, k) = (SledGet(tree, t, k) # None)
    /\ lastCall.op # "none" /\ lastCall.key \in keys => lastCall.sled = Expected(lastCall)

\* C1 as stated: in both backends, after any sequence of set/del calls, get returns the
\* value of the latest set not followed by a del (absent otherwise), set and del return
\* what get would have returned just before, contains is true exactly when get is present.
C1_LastWriteWins == MemAgrees /\ SledAgreesOn(KeyNames)

\* C1 amended: the same for the memory backend, and for the persistent backend as long
\* as no key passed to it contains a colon.
C1_LastWriteWinsColonFree ==
    MemAgrees /\ (~colonKey => SledAgreesOn({k \in KeyNames : ~HasColon(k)}))

\* a del has returned the value written by an earlier set, in a table whose name
\* contains a colon, no key with a colon having been used
C1_Witness ==
    /\ ~colonKey
    /\ lastCall.op = "del"
    /\ lastCall.table = StrTA
    /\ lastCall.sled = Some(ValueString(StrV1))
    /\ lastCall.mem = lastCall.sled
    /\ \E t \in TableNames, k \in KeyNames : latest[<<t, k>>] # None

\* ------------------------------------------------------------------------
\* Claims about the broadcaster

Count(seq, m) == Cardinality({i \in 1..Len(seq) : seq[i] = m})
\* how often response m was enqueued for subscription id and not discarded
Delivered(id, m) == Count(got[id], m) + Count(chan[id], m)
InTopics(id) == \E t \in DOMAIN topics : id \in topics[t]
StillLive(id) == id \notin Targeted /\ rx[id] = "open"
\* no subscribe call, Unsubscribe request, publish task or id push is under way
Quiescent ==
    /\ \A id \in DOMAIN subs : subs[id].pc = "done"
    /\ \A u \in 1..Len(unsubs) : unsubs[u].pc = "done"
    /\ \A p \in 1..Len(pubs) : pubs[p].pc = "done"
    /\ idPush = {}

\* C2: on every subscription channel the first response received is the id message (a
\* 200 response whose sole value is the subscription's id), whatever the interleaving
\* of the subscribe call, its id push and the publishes to the topic.
C2_IdMessageFirst ==
    \A id \in DOMAIN got : got[id] # <<>> => got[id][1] = IdMessage(id)

\* C3: once the fan-out of a publish to T has completed, every subscription of T that
\* was live when the publish was called (subscribe returned, never unsubscribed, receiver
\* held) and still is has been handed the published message exactly once.
C3_LiveSubscribersReceive ==
    \A p \in 1..Len(pubs) : pubs[p].pc = "done" =>
        \A id \in pubs[p].live : StillLive(id) => Delivered(id, pubs[p].value) = 1

\* C4: when nothing is under way any more, a subscription whose receiver had been
\* dropped (and which no Unsubscribe request has named), or which had been unsubscribed,
\* before a publish to its topic was called is neither in a topic's subscriber set nor
\* a key of subscriptions.
C4_AbandonedReaped ==
    Quiescent =>
        \A p \in 1..Len(pubs) :
            \A id \in (pubs[p].abandoned \ Targeted) \cup pubs[p].unsubscribed :
                id \notin subscriptions /\ ~InTopics(id)

\* C5: every id in a topic's subscriber set is a key of subscriptions (stated for the
\* states in which no operation is under way).
C5_TopicIdsRegistered ==
    Quiescent => \A t \in DOMAIN topics : topics[t] \subseteq subscriptions

\* C6: the topics map holds no topic with an empty subscriber set, except while the
\* remove_subscription run that took the last id out is about to remove the entry
\* (its next step, which nothing can hold up); so when no unsubscribe or reap is under
\* way no topic is empty.
C6_NoEmptyTopic ==
    \A t \in DOMAIN topics : topics[t] = {} =>
        \/ \E u \in 1..Len(unsubs) :
              unsubs[u].name = t /\ unsubs[u].pc = "remove_topic" /\ ENABLED UnsubRemoveTopic(u)
        \/ \E p \in 1..Len(pubs) :
              /\ pubs[p].name = t /\ pubs[p].pc = "reap" /\ pubs[p].rm = "remove_topic"
              /\ ENABLED PubReapRemoveTopic(p)

\* an Unsubscribe has removed the last subscriber of its topic and the topic is gone
C6_Witness ==
    \E u \in 1..Len(unsubs) :
        /\ unsubs[u].pc = "done"
        /\ unsubs[u].removed # None
        /\ subs[unsubs[u].id].name = unsubs[u].name
        /\ unsubs[u].name \notin DOMAIN topics

\* C7: for a publish to T called after Unsubscribe(T, id) had returned for a live
\* subscription, once its fan-out has completed the unsubscribed subscription was handed
\* nothing and every other live subscription of T was handed the message.
C7_OthersStillReceive ==
    \A p \in 1..Len(pubs) : (pubs[p].pc = "done" /\ pubs[p].unsubscribed # {}) =>
        /\ \A id \in pubs[p].unsubscribed : Delivered(id, pubs[p].value) = 0
        /\ \A id \in pubs[p].live : StillLive(id) => Delivered(id, pubs[p].value) = 1

\* C8: an Unsubscribe request yields exactly one response: 200 with empty payload, or
\* 404 "Not found subscription <id>" with empty values and pairs, and in that case it
\* has changed neither map. (Stated for the requests beside which no other call
\* or task was under way.)
C8_UnsubscribeReply ==
    \A u \in 1..Len(unsubs) : (unsubs[u].pc = "done" /\ unsubs[u].alone) =>
        /\ Len(unsubs[u].reply) = 1
        /\ \/ unsubs[u].reply[1] = ResponseOk
           \/ /\ unsubs[u].reply[1] =
                    [status |-> 404, message |-> <<"Not found", "subscription", unsubs[u].id>>,
                     values |-> <<>>, pairs |-> <<>>]
              /\ ~unsubs[u].changed

ChannelsBounded == \A id \in DOMAIN chan : Len(chan[id]) <= BROADCAST_CAPACITY
MarkedReaped ==
    \A p \in 1..Len(pubs) : pubs[p].pc = "done" =>
        \A id \in pubs[p].marked : id \notin subscriptions /\ ~InTopics(id)

SubscribedNames == {subs[id].name : id \in DOMAIN subs}

\* C10: every Publish request has exactly one reply, status 200 with empty values and
\* pairs, from the moment it is made (its fan-out not started, or waiting, or over);
\* publishes create no topic entry and no subscription: topics exist only for names a
\* subscribe has named, subscriptions only for ids a subscribe has allocated.
C10_PublishRepliesOk ==
    /\ \A p \in 1..Len(pubs) :
         pubs[p].reply = <<[status |-> 200, message |-> <<>>, values |-> <<>>, pairs |-> <<>>]>>
    /\ DOMAIN topics \subseteq SubscribedNames
    /\ subscriptions \subseteq DOMAIN subs

\* a Publish to a topic that never existed has its reply and its fan-out is over, and
\* another Publish has its reply while its fan-out has not started
C10_Witness ==
    /\ \E p \in 1..Len(pubs) :
         pubs[p].pc = "done" /\ pubs[p].name \notin SubscribedNames /\ Len(pubs[p].reply) = 1
    /\ \E p \in 1..Len(pubs) : pubs[p].pc = "get" /\ Len(pubs[p].reply) = 1

\* ------------------------------------------------------------------------
\* Claims about the published message and the subscription ids

\* C11: every response a subscriber has received or has queued, other than its id
\* message, is the message of a Publish request: status 200, empty message and pairs,
\* and the published values in their order.
C11_PublishedMessageOk ==
    \A id \in DOMAIN chan : \A m \in {got[id][i] : i \in 1..Len(got[id])}
                                   \cup {chan[id][i] : i \in 1..Len(chan[id])} :
        m # IdMessage(id) =>
            \E p \in 1..Len(pubs) :
                m = [status |-> 200, message |-> <<>>, values |-> PublishedValues(p), pairs |-> <<>>]

\* C12: the id a subscribe call allocates (the one whose id push it has just spawned)
\* is positive, was handed to no earlier subscription and is greater than every id
\* allocated before, whatever other calls and tasks are under way.
C12_IdsDistinctIncreasing ==
    [][\A id \in idPush' \ idPush :
          id > 0 /\ id \notin DOMAIN subs /\ \A o \in DOMAIN subs : o < id]_vars

\* two subscribe calls are under way at once, each with its own id
C12_Witness ==
    \E i \in DOMAIN subs, j \in DOMAIN subs :
        i < j /\ subs[i].pc = "insert" /\ subs[j].pc = "insert" /\ {i, j} \subseteq idPush

\* C13 as stated: on every Broadcaster the ids start at 1: once it has subscribers,
\* id 1 is among them (no unsubscribe or reap takes ids out here).
C13_FreshStartsAtOne == TopicIds # {} => 1 \in TopicIds

\* C13 amended: the ids handed out in the process are 1, 2, ... without gap, so the
\* first subscribe of the process returns 1; the ids of the current Broadcaster are
\* greater than all ids handed out before it was constructed, so a Broadcaster
\* constructed after k subscribes starts at k + 1 and its ids increase.
C13_ProcessWideIds ==
    /\ DOMAIN subs = 1..(NEXT_ID - 1)
    /\ \A id \in TopicIds : \A o \in DOMAIN subs \ TopicIds : o < id

\* a second Broadcaster has handed out its first id, which is not 1
C13_Witness ==
    /\ TopicIds # {}
    /\ 1 \in DOMAIN subs \ TopicIds
    /\ \A id \in TopicIds : subs[id].pc = "done" /\ id > 1

\* ------------------------------------------------------------------------
\* Claims about the command services and Service::execute (checked under SpecService)

\* the request served last was of this variant
Served(variant) == served.path # "none" /\ served.req.variant = variant

\* what Hget and Hgetall requests would be answered on store tbls (pairs as a set)
Answers(tbls) ==
    [req \in {r \in ServiceRequests : r.variant \in {"Hget", "Hgetall"}} |->
        IF req.variant = "Hget" THEN HgetExecute(req, tbls)
        ELSE {{ps[i] : i \in 1..Len(ps)} : ps \in MemGetAll(tbls, req.table)}]

\* C14: the response of Hget(table, key) is 200 with values = [v] when (table, key)
\* holds v (the value of the latest Hset), and 404 with a message that starts with
\* "Not found" and empty values and pairs when the key or the table is absent; the
\* request changes the answer of no Hget or Hgetall request.
C14_HgetReply ==
    Served("Hget") =>
        LET held == latest[<<served.req.table, served.req.key>>] IN
        /\ held # None =>
             served.raw = [status |-> 200, message |-> <<>>, values |-> <<held[1]>>, pairs |-> <<>>]
        /\ held = None =>
             /\ served.raw.status = 404
             /\ served.raw.message[1] = "Not found"
             /\ served.raw.values = <<>> /\ served.raw.pairs = <<>>
        /\ Answers(tables) = Answers(served.before)

\* an Hget of a key of a table that did not exist was answered 404 and has created
\* the table, while another table holds a value
C14_Witness ==
    /\ Served("Hget")
    /\ served.raw.status = 404
    /\ tables # served.before
    /\ \E p \in DOMAIN latest : latest[p] # None

\* C15: Hset(table, pair) with a pair leaves pair.value (the default Value if the pair
\* has none) under (table, pair.key), every other entry as it was, and its response is
\* 200 with values = [the value the key held before], or [the default Value] when the
\* key was new; Hset with no pair is answered 200 with values = [the default Value]
\* and leaves the store as it was.
C15_HsetReply ==
    Served("Hset") =>
        LET t == served.req.table
            Ok(v) == [status |-> 200, message |-> <<>>, values |-> <<v>>, pairs |-> <<>>]
        IN IF served.req.pair = None
           THEN served.raw = Ok(ValueDefault) /\ tables = served.before
           ELSE LET k == served.req.pair[1].key
                    v == served.req.pair[1].value
                    old == IF t \in DOMAIN served.before /\ k \in DOMAIN served.before[t]
                           THEN served.before[t][k] ELSE ValueDefault
                IN /\ MemGet(tables, t, k) = Some(IF v = None THEN ValueDefault ELSE v[1])
                   /\ served.raw = Ok(old)
                   /\ \A t2 \in TableNames, k2 \in KeyNames :
                        <<t2, k2>> # <<t, k>> => MemGet(tables, t2, k2) = MemGet(served.before, t2, k2)

\* an Hset has replaced the value of a key and was answered with the value replaced,
\* while the other key of the table holds a value
C15_Witness ==
    /\ Served("Hset")
    /\ served.req.pair # None
    /\ served.raw.values = <<ValueString(StrV1)>>
    /\ MemGet(tables, served.req.table, served.req.pair[1].key) = Some(ValueInteger(7))
    /\ \E k \in KeyNames : k # served.req.pair[1].key /\ MemContains(tables, served.req.table, k)

\* C16: Hgetall(table) is answered 200, with no message and no values, and with
\* exactly one pair for each key that was set in the table, carrying the value of the
\* latest Hset of that key; for a table never written the pairs are empty.
C16_HgetallReply ==
    Served("Hgetall") =>
        LET t == served.req.table
            present == {k \in KeyNames : latest[<<t, k>>] # None}
            ps == served.raw.pairs
        IN /\ served.raw.status = 200
           /\ served.raw.message = <<>> /\ served.raw.values = <<>>
           /\ Len(ps) = Cardinality(present)
           /\ {ps[i] : i \in 1..Len(ps)}
                = {[key |-> k, value |-> latest[<<t, k>>]] : k \in present}

\* an Hgetall was answered with the pairs of two keys, and another with no pair
\* would be for the table never written
C16_Witness ==
    /\ Served("Hgetall")
    /\ Len(served.raw.pairs) = 2
    /\ served.raw.pairs[1].key # served.raw.pairs[2].key
    /\ MemGetAll(tables, StrTA) = {<<>>}

\* C17: a request of a variant without handler (Hmget, Hmset, Hdel, Hmdel, Hexist,
\* Hmexist) is answered with exactly one response, of status 500, the store and the
\* broadcaster are as before, and the task that serves the connection goes on.
C17_UnhandledVariantReply ==
    (served.path # "none" /\ served.req.variant \in UnhandledVariants) =>
        /\ Len(served.res) = 1
        /\ served.res[1].status = 500
        /\ tables = served.before
        /\ topics = <<>> /\ subscriptions = {}
        /\ task # "panicked"

\* the calls of the hooks of one phase that Service::execute made for the request
Calls(phase) == SelectSeq(served.log, LAMBDA e : e.phase = phase)

\* C18: a request with no variant gets the response 400 with empty values and pairs
\* from dispatch and takes the unary path: every on_executed and on_before_send hook is
\* called, the stream yields exactly one response (the 400 response itself when no
\* on_before_send hook is registered, and in any case with empty values and pairs),
\* and store and broadcaster are as before.
C18_NoVariantReply ==
    Served("None") =>
        /\ served.path = "unary"
        /\ served.raw.status = 400
        /\ served.raw.values = <<>> /\ served.raw.pairs = <<>>
        /\ Len(Calls("on_executed")) = Len(svc.on_executed)
        /\ Len(Calls("on_before_send")) = Len(svc.on_before_send)
        /\ Len(served.res) = 1
        /\ svc.on_before_send = <<>> => served.res[1] = served.raw
        /\ served.res[1].values = <<>> /\ served.res[1].pairs = <<>>
        /\ tables = served.before
        /\ topics = <<>> /\ subscriptions = {}
        /\ task # "panicked"

\* a request with no variant was answered 400 on a connection of a Service with an
\* on_executed hook and a store that holds a value, and the response was sent
C18_Witness ==
    /\ Served("None")
    /\ svc.on_executed # <<>>
    /\ Len(served.sent) = 1
    /\ served.sent[1].status = 400
    /\ \E p \in DOMAIN latest : latest[p] # None

\* C19: for a request on the unary path the calls Service::execute makes are, in this
\* order: every on_received hook on the request, dispatch, every on_executed hook on
\* the response of dispatch, every on_before_send hook on the response as the hooks
\* before it left it; each list in registration order; and the stream yields exactly
\* the response as the last on_before_send hook left it.
C19_HookOrder ==
    served.path = "unary" =>
        LET nr == Len(svc.on_received)
            ne == Len(svc.on_executed)
            nb == Len(svc.on_before_send)
            log == served.log
            bs(i) == log[nr + 1 + ne + i]
        IN /\ Len(log) = nr + 1 + ne + nb
           /\ \A i \in 1..nr :
                log[i] = [phase |-> "on_received", hook |-> svc.on_received[i], arg |-> served.req]
           /\ log[nr + 1].phase = "dispatch"
           /\ \A i \in 1..ne :
                log[nr + 1 + i]
                  = [phase |-> "on_executed", hook |-> svc.on_executed[i], arg |-> served.raw]
           /\ \A i \in 1..nb :
                /\ bs(i).phase = "on_before_send"
                /\ bs(i).hook = svc.on_before_send[i]
                /\ bs(i).arg = IF i = 1 THEN served.raw
                               ELSE HookEffect(bs(i - 1).hook, bs(i - 1).arg)
           /\ served.res = <<IF nb = 0 THEN served.raw ELSE HookEffect(bs(nb).hook, bs(nb).arg)>>

\* a response was sent that two on_before_send hooks rewrote one after the other (the
\* message notes the status seen before the other hook set 201), on a Service with
\* two on_received hooks and an on_executed hook
C19_Witness ==
    /\ served.path = "unary"
    /\ svc.on_received = <<"b", "a">>
    /\ svc.on_executed # <<>>
    /\ svc.on_before_send = <<"note", "d">>
    /\ Len(served.sent) = 1
    /\ served.sent[1].status = 201
    /\ served.sent[1].message = <<"status", 200>>

\* C20: once the response of a unary request has been handed to the transport and the
\* connection loop is back to awaiting the next request, every registered
\* on_after_send hook has been run exactly once for that response.
C20_AfterSendRuns ==
    (served.path = "unary" /\ Len(served.sent) = 1 /\ task = "idle") =>
        served.after_send = Len(svc.on_after_send)

\* ------------------------------------------------------------------------
\* Claims about the connection driver and the multiplexed connection
\* (checked under SpecMux)

\* C21: within one sub-stream the requests are processed in the order the client wrote
\* them, request n+1 is read only after the response stream of request n has ended and
\* everything it yielded has been sent, in the order yielded; so after a Subscribe
\* nothing more is read on the sub-stream until the subscription's stream ends.
C21_OneRequestAtATime ==
    \A s \in SubStreams :
        LET h == hs[s]
            ev == h.ev
        IN /\ h.pc = "recv" => (h.resp.items = <<>> /\ ~h.resp.open)
           /\ \A i \in 1..Len(ev) :
                /\ ev[i].kind = h.inbox[ev[i].n]
                /\ ev[i].type = "read" =>
                       IF i = 1 THEN ev[i].n = 1
                       ELSE ev[i - 1].type = "end" /\ ev[i].n = ev[i - 1].n + 1
                /\ ev[i].type = "sent" =>
                       /\ i > 1
                       /\ ev[i - 1].n = ev[i].n
                       /\ ev[i - 1].type \in {"read", "sent"}
                       /\ ev[i].item = ev[i - 1].item + 1
                /\ ev[i].type = "end" =>
                       /\ i > 1
                       /\ ev[i - 1].n = ev[i].n
                       /\ ev[i - 1].type \in {"read", "sent"}
                       /\ ev[i].item = ev[i - 1].item

\* a Subscribe whose stream yielded two messages and ended, then the next request answered
C21_Witness ==
    \E s \in SubStreams :
        /\ hs[s].inbox = <<"Subscribe", "Hset">>
        /\ Len(hs[s].ev) = 6
        /\ hs[s].ev[3] = [type |-> "sent", n |-> 1, kind |-> "Subscribe", item |-> 2]
        /\ hs[s].ev[6] = [type |-> "sent", n |-> 2, kind |-> "Hset", item |-> 1]

\* C22: when the handler of one sub-stream has ended on a failure (here: sending a
\* response failed), no handler of another sub-stream of the connection was ended by it.
C22_FailureEndsOnlyItsHandler ==
    (\E s \in SubStreams : hs[s].pc = "failed") =>
        \A t \in SubStreams : hs[t].pc # "dropped"

\* ------------------------------------------------------------------------
\* Claims about the framed stream (checked under SpecWire)

\* every poll so far returned a message
AllItemsOk(n) == \A j \in 1..n : polled[j].kind = "item" /\ polled[j].res.ok

\* C23: when the peer has shut the byte stream down at a frame boundary (every poll
\* before returned a whole message and no byte is left), the poll of the framed stream
\* returns end-of-stream and not an error item.
C23_CleanCloseEndsStream ==
    \A i \in 1..Len(polled) :
        (polled[i].eof /\ polled[i].avail = 0 /\ AllItemsOk(i - 1)) => polled[i].kind = "end"

\* the frames of the messages, each encoded on its own, one after the other
RECURSIVE FramesOf(_)
FramesOf(ms) == IF ms = <<>> THEN <<>> ELSE EncodeFrame(Head(ms), <<>>).buf \o FramesOf(Tail(ms))

\* C24: once everything queued by start_send has been flushed, the bytes written to the
\* byte stream are the frames of the queued messages in queue order, and a peer whose
\* polls all returned messages has received those messages in that order.
C24_QueuedFramesConcatenate ==
    (wbuf = <<>> /\ written = 0) =>
        /\ sentBytes = FramesOf(accepted)
        /\ AllItemsOk(Len(polled)) =>
               \A i \in 1..Len(polled) :
                   IF i <= Len(accepted) THEN polled[i].res.msg = accepted[i] ELSE FALSE

\* ------------------------------------------------------------------------
\* Claims about frames (checked under SpecCodec)

\* C25: decode_frame on a buffer that starts with the frame encode_frame produced for m
\* returns m and consumes exactly that frame, four header bytes and the payload, and
\* leaves the bytes after it as they were.
C25_FrameRoundTrip ==
    \A j \in 1..Len(clog) :
        clog[j].op = "decode" =>
            LET frame == EncodeFrame(clog[j].msg, <<>>).buf
            IN /\ clog[j].res = Decoded(clog[j].msg)
               /\ Len(frame) = LEN_LEN + DecodeHeader(GetU32(frame)).len
               /\ clog[j].before = frame \o clog[j].after

\* C26: a message of encoded size 2 GiB or more is refused with FrameTooLarge and the
\* buffer stays as it was; otherwise the header of the frame added has bit 31 clear and
\* the encoded size in bits 0..30 when that size is at most 1436, and bit 31 set and the
\* number of compressed bytes after it in bits 0..30 when the size is above 1436.
C26_HeaderLayout ==
    \A j \in 1..Len(clog) :
        clog[j].op = "encode" =>
            LET size == EncodedLen(clog[j].msg)
                frame == Advance(clog[j].after, Len(clog[j].before))
                header == GetU32(frame)
            IN IF UsizeGe(size, MAX_FRAME)
               THEN clog[j].error = "FrameTooLarge" /\ clog[j].after = clog[j].before
               ELSE /\ clog[j].error = ""
                    /\ IF size.lo <= COMPRESSION_LIMIT
                       THEN header.hi = 0 /\ header.lo = size.lo /\ Len(frame) = LEN_LEN + size.lo
                       ELSE header.hi = 1 /\ header.lo = Len(frame) - LEN_LEN

\* ------------------------------------------------------------------------
\* Claims about scans of a table (checked under SpecScan)

\* C27: on both backends get, contains, del and get_all on a table that no set has
\* ever written succeed with absent / false / absent / empty. Stated for
\* the calls whose keys hold no colon, in a history where no key held one.
C27_AbsentTableReads ==
    ~colonKey =>
        /\ (lastCall.op \in {"get", "del"} /\ lastCall.table \notin setTables)
               => (lastCall.mem = None /\ lastCall.sled = None)
        /\ (lastCall.op = "contains" /\ lastCall.table \notin setTables)
               => (lastCall.mem = Some(FALSE) /\ lastCall.sled = Some(FALSE))
        /\ (lastScan.op = "get_all" /\ lastScan.fresh)
               => (lastScan.mem = Scanned(<<>>) /\ lastScan.sled = Scanned(<<>>))

\* the sequences hold the same pairs, each as often
SamePairs(a, b) ==
    /\ Len(a) = Len(b)
    /\ \A p \in {a[i] : i \in 1..Len(a)} \cup {b[i] : i \in 1..Len(b)} :
        Cardinality({i \in 1..Len(a) : a[i] = p}) = Cardinality({i \in 1..Len(b) : b[i] = p})

\* C28: on both backends get_iter(table) succeeds and yields exactly the pairs that
\* get_all(table) returns at that moment, each once.
C28_GetIterYieldsGetAll ==
    lastScan.op = "get_iter" =>
        /\ lastScan.mem.res = "Ok" /\ SamePairs(lastScan.mem.pairs, lastScan.memAll)
        /\ lastScan.sled.res = "Ok" /\ SamePairs(lastScan.sled.pairs, lastScan.sledAll)

\* ------------------------------------------------------------------------
\* Claims about concurrent callers of the MemTable (checked under SpecConc)

\* the value of the key after the first n operations of lin, applied one by one
RECURSIVE ValueAfter(_)
ValueAfter(n) ==
    IF n = 0 THEN None
    ELSE CASE lin[n].op = "set" -> Some(lin[n].value)
           [] lin[n].op = "del" -> None
           [] OTHER -> ValueAfter(n - 1)

\* C29: storage operations are atomic per key. The calls of concurrent callers on
\* one (table, key), the first writes that create the table included, have a total order
\* (lin) in which every set/del returns the value left by the operation before it and every
\* get returns the value of the latest preceding write; the key holds the value of the
\* last write, and no written value is returned as previous by two writers.
C29_AtomicPerKey ==
    /\ \A n \in 1..Len(lin) : lin[n].ret = ValueAfter(n - 1)
    /\ StrT \in DOMAIN tables => MemGet(tables, StrT, StrK) = ValueAfter(Len(lin))
    /\ \A m, n \in 1..Len(lin) :
        (/\ m # n
         /\ lin[m].op \in {"set", "del"}
         /\ lin[n].op \in {"set", "del"}
         /\ lin[m].ret # None) => lin[m].ret # lin[n].ret

\* two callers both found the table missing and went on to create it, and both of
\* their sets took effect, the second returning the value of the first
C29_Witness ==
    /\ Len(lin) >= 2
    /\ lin[1].op = "set" /\ lin[2].op = "set"
    /\ lin[1].caller # lin[2].caller
    /\ lin[1].created /\ lin[2].created
    /\ lin[2].ret = Some(lin[1].value)

\* ------------------------------------------------------------------------
\* Claims about the order of publishes (checked under Spec)

\* C30: all subscribers of a topic see its publishes in one common order. If two
\* subscribers both receive the messages of two publishes, they receive them in
\* the same relative order.
C30_CommonOrder ==
    \A i, j \in DOMAIN got :
        \A a, b \in 1..Len(got[i]) :
            \A c, d \in 1..Len(got[j]) :
                (a < b /\ got[i][a] = got[j][c] /\ got[i][b] = got[j][d]) => c < d

\* ------------------------------------------------------------------------
\* Claims about the keys a scan of SledDb reports (checked under SpecScan)

\* the pairs SledDb yielded in the last scan
SledYielded == IF lastScan.op = "get_iter" THEN lastScan.sled.pairs ELSE lastScan.sledAll

\* the entry stored with table t and key k (k among keys) is reported by the last
\* scan of t under its own key
ReportedAs(keys) ==
    LET t == lastScan.table
        names == ScanPrefix(tree, GetTablePrefix(t))
    IN \A k \in keys :
        latest[<<t, k>>] # None =>
            \E i \in 1..Len(names) : names[i] = GetFullKey(t, k) /\ SledYielded[i].key = k

\* C31 as stated: for an entry stored with a colon-free table t and any key k,
\* get_all(t) and get_iter(t) of SledDb report the key as k.
C31_KeyIsRemainder ==
    (lastScan.op \in {"get_all", "get_iter"} /\ ~HasColon(lastScan.table))
        => ReportedAs(KeyNames)

\* C31, amended: the same for the keys that hold no colon.
C31_KeyIsRemainderColonFree ==
    (lastScan.op \in {"get_all", "get_iter"} /\ ~HasColon(lastScan.table))
        => ReportedAs({k \in KeyNames : ~HasColon(k)})

\* a scan of table "t" that holds key "k" has reported it
C31_Witness ==
    /\ lastScan.op \in {"get_all", "get_iter"}
    /\ lastScan.table = StrT
    /\ latest[<<StrT, StrK>>] # None
    /\ \E i \in 1..Len(SledYielded) : SledYielded[i].key = StrK

\* the keys of the model that hold no colon
ColonFreeKeys == {k \in KeyNames : ~HasColon(k)}

\* what get and contains (on the keys that hold no colon), get_all and get_iter return
\* on table t, on both backends
ReadsOf(tbls, tr, t) ==
    [get |-> [k \in ColonFreeKeys |-> <<MemGet(tbls, t, k), SledGet(tr, t, k)>>],
     contains |-> [k \in ColonFreeKeys |-> <<MemContains(tbls, t, k), SledContains(tr, t, k)>>],
     get_all |-> <<MemGetAll(tbls, t), SledGetAll(tr, t)>>,
     get_iter |-> <<MemGetIter(tbls, t), SledGetIter(tr, t)>>]

\* C32: a table is a namespace. On both backends a set or del on (t1, k1) never changes
\* the result of get, contains, get_all or get_iter on a different table t2. Stated for
\* the keys that hold no colon, in the histories in which no key held one.
C32_TablesAreNamespaces ==
    [][(/\ lastScan' = NotAScan
        /\ lastCall'.op \in {"set", "del"}
        /\ ~colonKey')
       => \A t2 \in TableNames \ {lastCall'.table} :
            ReadsOf(tables', tree', t2) = ReadsOf(tables, tree, t2)]_vars

\* ------------------------------------------------------------------------
\* Claims about the path Service::execute takes (checked under SpecService)

C34_StreamPathSkipsHooks ==
    (served.path # "none" /\ served.req.variant \in TopicVariants) =>
        /\ served.path = "stream"
        /\ Calls("on_received") = Notify(svc.on_received, "on_received", served.req)
        /\ Calls("on_executed") = <<>>
        /\ Calls("on_before_send") = <<>>
        /\ served.res = served.stream
        /\ served.sent = SubSeq(served.stream, 1, Len(served.sent))

\* a Subscribe was served by a Service with hooks of all three kinds, and the id
\* message and a published message were sent, with the status the topic service gave
C34_Witness ==
    /\ served.req.variant = "Subscribe"
    /\ svc.on_received # <<>> /\ svc.on_executed # <<>>
    /\ InList("d", svc.on_before_send)
    /\ Len(served.sent) = 2
    /\ served.sent[1] = IdMessage(1)
    /\ served.sent[2].status = 0

\* ------------------------------------------------------------------------
\* Claims about races in the Broadcaster (checked under Spec)

\* C35: a subscription is never lost by a race with the removal of its topic. Once
\* every subscribe call, Unsubscribe request and publish task has completed, the id of
\* every live subscription (returned, never named by an Unsubscribe, receiver held) is
\* in the subscriber set of its topic.
C35_SubscriptionNotLost ==
    (/\ \A id \in DOMAIN subs : subs[id].pc = "done"
     /\ \A u \in 1..Len(unsubs) : unsubs[u].pc = "done"
     /\ \A p \in 1..Len(pubs) : pubs[p].pc = "done")
    => \A id \in DOMAIN subs :
         id \in Live(subs[id].name) =>
            (subs[id].name \in DOMAIN topics /\ id \in topics[subs[id].name])

\* C36: Unsubscribe(name, id) removes the sender of id from the subscriptions map only
\* if id is in the subscriber set of topic name. A returned subscription with its
\* receiver held, which Unsubscribe requests have named only together with the name of
\* another topic, stays registered, and remove_subscription returned nothing for it.
C36_UnsubscribeChecksTopic ==
    \A id \in Returned :
        (/\ rx[id] = "open"
         /\ \A u \in 1..Len(unsubs) : unsubs[u].id = id => unsubs[u].name # subs[id].name)
        => /\ id \in subscriptions
           /\ \A u \in 1..Len(unsubs) :
                (unsubs[u].id = id /\ unsubs[u].pc = "done") => unsubs[u].removed = None

\* ------------------------------------------------------------------------
\* Claims about a subscriber that does not read (checked under SpecStall)

\* the p-th Publish request has been made, to topic "a"
PublishedToA(p) == IF p \in 1..Len(pubs) THEN pubs[p].name = "a" ELSE FALSE

\* its fan-out is over and subscriber 2 has received its message
FannedOut(p) ==
    IF p \in 1..Len(pubs)
    THEN pubs[p].pc = "done" /\ \E i \in 1..Len(got[2]) : got[2][i] = pubs[p].value
    ELSE FALSE

\* C37: a subscriber whose channel is full, with its receiver held and not reading, does
\* not keep the other subscribers of the topic from a published message. Every fan-out
\* of a publish to the topic terminates, and subscriber 2, which reads, has received the
\* message by then.
C37_FanOutTerminates == \A p \in 1..MaxReq : PublishedToA(p) ~> FannedOut(p)

\* ------------------------------------------------------------------------
\* Claims about what a waiting fan-out holds (checked under SpecBacklog)

\* some fan-out is suspended in tx.send(..).await on a full channel
SendSuspended == \E p \in 1..Len(pubs) : pubs[p].cur # 0 /\ SendOutcome(pubs[p].cur) = "pending"

\* C38: a fan-out that is suspended awaiting a channel send holds no entry guard of
\* the topics map or of the subscriptions map: while one is suspended, every subscribe
\* call and every Unsubscribe request under way can take its next step.
C38_SuspendedSendHoldsNoGuard ==
    SendSuspended =>
        /\ \A id \in DOMAIN subs : subs[id].pc = "insert" => ENABLED SubscribeInsert(id)
        /\ \A u \in 1..Len(unsubs) :
            /\ unsubs[u].pc = "remove_topic" => ENABLED UnsubRemoveTopic(u)
            /\ unsubs[u].pc = "remove_sub" => ENABLED UnsubRemoveSub(u)

\* ------------------------------------------------------------------------
\* Claims about receive on a framed stream (checked under SpecWire)

\* what the polls of poll_next that returned an item returned, in order
ItemsPolled ==
    LET items == SelectSeq(polled, LAMBDA e : e.kind = "item")
    IN [i \in 1..Len(items) |-> items[i].res]

\* C39: receive returns exactly the frames that were sent, in order, however the byte
\* stream delivers them. When well-formed frames have been written and flushed in any
\* number of pieces, with polls that reported pending in between, and the receiver has
\* taken every byte from the byte stream, it has returned every message sent.
C39_NoByteLost ==
    (/\ ~closed
     /\ wbuf = <<>>
     /\ wire = <<>>
     /\ sentBytes = FramesOf(accepted))
    => ItemsPolled = [i \in 1..Len(accepted) |-> Decoded(accepted[i])]

\* C40: the assertion at the start of poll_next that the read buffer is empty never
\* fails: after any receive outcome the read buffer is empty again, and no later
\* receive on the same stream aborts.
C40_ReadBufferEmptyBetweenPolls ==
    /\ rbuf = <<>>
    /\ \A i \in 1..Len(polled) : polled[i].kind # "panic"

====
